---- MODULE Spec2Model ----
(***************************************************************************)
(* State-machine models of the executable examples of the lesson scripts   *)
(* under src/_build/jupyter_execute.  Every lesson is an independent       *)
(* script, so every example has its own variables, its own initial         *)
(* predicate and its own specification; while one example runs, the        *)
(* variables of the others stay at their idle values.                      *)
(***************************************************************************)
EXTENDS Integers, Sequences, FiniteSets, TLC

VARIABLES
    running,      \* the example that is being run
    \* 03_python_basics.py: yield_list / next / for (In[33]-In[38])
    gen_n,        \* the argument n of yield_list(n)
    gen_i,        \* the local i of the generator frame
    gen_state,    \* "none" | "created" | "suspended" | "closed"
    gen_out,      \* the values printed by print(next(gen)) and print(i)
    gen_mode,     \* "idle" | "for": the cell being executed
    for_k,        \* how many values had been produced when the for loop began
    for_out,      \* the values printed by the for loop of In[38]
    for_done,     \* the for loop of In[38] has run to its end
    next_calls,   \* number of next(gen) calls made by cells like In[37]
    next_raised,  \* how many of them raised StopIteration
    \* 05_online.py: the historical-price loop (In[23]-In[24])
    dji_symbols,  \* dji_df.symbol.tolist()
    loop_pos,     \* how many symbols of dji_symbols[:5] the for loop has taken
    response,     \* status code of the last response, "none" before the first
    requests,     \* the symbols whose URL re.get was called with, in order
    online_out,   \* the lines printed by the loop
    dji_hist,     \* the symbols whose rows were concatenated to dji_hist
    online_pc,    \* "for" | "check" | "collect" | "done" | "raised"
    \* 06_scraping.py: mySpider and followSpider (In[29]-In[30], In[1]-In[2])
    spider,       \* the name of the spider class given to proc.crawl
    sp_started,   \* the engine has consumed start_requests()
    sp_issued,    \* the requests yielded so far: [url, callback, parent]
    sp_sched,     \* indices of the issued requests the engine still holds
    sp_calls,     \* the callback invocations: [callback, req, url, paras]
    sp_resp,      \* the response handed to the latest callback invocation
    sp_out,       \* the printed values: [call, value]
    \* 10_dash_II.py, In[1]: the first reactive app
    r_started,    \* the app is being served and its page is loaded
    inum,         \* property value of the dcc.Input 'inum'
    outext,       \* property children of the html.P 'outext'
    r_pending,    \* the argument of the div_outext request in flight, or NoRequest
    r_error,      \* the latest div_outext call raised
    \* 10_dash_II.py, In[2]: several inputs and outputs
    n_started,    \* the app is being served and its page is loaded
    fname_i,      \* value of 'fname_i', a list of characters
    lname_i,      \* value of 'lname_i'
    fname_o,      \* children of 'fname_o'
    lname_o,      \* children of 'lname_o'
    n_pending,    \* the arguments of the div_outext request in flight, or NoRequest
    n_error,      \* the latest div_outext call did not give two values
    \* 10_dash_II.py, In[3]: the global dataframe
    df,           \* the rows of df, a list of records
    \* 10_dash_II.py, In[6]: States
    st_started,   \* the app is being served and its page is loaded
    comp_slider,  \* value of the dcc.Slider 'comp_slider'
    company_dd,   \* value of the dcc.Dropdown 'company_dd'
    n_clicks,     \* n_clicks of the html.Button 'update'
    outgraph,     \* figure of the dcc.Graph 'outgraph'
    st_pending,   \* the arguments of the make_outgraph request in flight
    st_calls,     \* how often make_outgraph has been called
    \* 10_dash_II.py, In[7]: dynamic conditional input (chained callbacks)
    ch_started,   \* the app is being served and its page is loaded
    sector_dd,    \* value of the dcc.Dropdown 'sector_dd'
    dd_options,   \* options of the dcc.Dropdown 'company_dd'
    dd_value,     \* value of the dcc.Dropdown 'company_dd'
    ch_pend_options,  \* the set_options_company_dd request in flight
    ch_pend_value,    \* the set_default_company_dd request in flight
    ch_picked,    \* the user chose a company after the last default was set
    \* 10_dash_II.py, In[9]: selecting points from a graph
    sel_started,  \* the app is being served and its page is loaded
    graph_fig,    \* figure of the dcc.Graph 'graph': the points of its trace
    clickData,    \* clickData of 'graph': the pointIndex values, or NoPoints
    selectedData, \* selectedData of 'graph': the pointIndex values, or NoPoints
    sel_trigger,  \* dash.callback_context.triggered[0]["prop_id"] of the last call
    table_data,   \* data of the DataTable 'table'
    \* 10_dash_II.py, In[10]-In[18]: decorators
    deco_cell,    \* which decorated function the script has bound: 1, 2 or 3
    deco_call,    \* the arguments of the latest call of the decorated name
    deco_runs,    \* the arguments the inner function was run with in that call
    deco_out,     \* the lines printed during that call
    deco_pc,      \* "idle" | "enter" | "hash" | "func" | "bang" | "returned" | "raised"
    \* 03_python_basics.py, In[42]: global and local variables
    x,            \* the global variable x
    sc_frame,     \* the function being run, its position and its local x
    sc_hist,      \* the functions called so far, in order
    sc_out,       \* the values of x printed so far: [by, value]
    \* 08_interactive_plots.py, In[17]: slider for item selection
    sl_traces,    \* fig.data: the traces, each with its property visible
    sl_pc,        \* "loop" | "hide" | "layout" | "shown"
    sl_active,    \* the position of the slider, counted from 1
    sl_moves,     \* the positions the slider was moved to, in order
    \* every lesson script, run from its first cell to its last
    cl_script,    \* the file name of the script being run
    cl_pos,       \* how many of its cells have been executed
    cl_names,     \* the names bound in the namespace of the run
    cl_status,    \* "running" | "finished" | "NameError"
    cl_missing    \* the names the raising cell did not find

genVars == <<gen_n, gen_i, gen_state, gen_out, gen_mode, for_k, for_out,
             for_done, next_calls, next_raised>>

onlineVars == <<dji_symbols, loop_pos, response, requests, online_out,
                dji_hist, online_pc>>

spiderVars == <<spider, sp_started, sp_issued, sp_sched, sp_calls, sp_resp,
                sp_out>>

reactiveVars == <<r_started, inum, outext, r_pending, r_error>>

namesVars == <<n_started, fname_i, lname_i, fname_o, lname_o, n_pending, n_error>>

statesVars == <<st_started, comp_slider, company_dd, n_clicks, outgraph,
                st_pending, st_calls>>

chainVars == <<ch_started, sector_dd, dd_options, dd_value, ch_pend_options,
               ch_pend_value, ch_picked>>

selectVars == <<sel_started, graph_fig, clickData, selectedData, sel_trigger,
                table_data>>

decoVars == <<deco_cell, deco_call, deco_runs, deco_out, deco_pc>>

\* The examples of the first lessons, and those added after them.
firstVars == <<genVars, onlineVars, spiderVars, reactiveVars, namesVars, df,
               statesVars, chainVars, selectVars>>
scopeVars == <<x, sc_frame, sc_hist, sc_out>>
sliderVars == <<sl_traces, sl_pc, sl_active, sl_moves>>
cellVars == <<cl_script, cl_pos, cl_names, cl_status, cl_missing>>
laterVars == <<decoVars, scopeVars, sliderVars, cellVars>>

vars == <<running, firstVars, laterVars>>

notDeco == <<running, firstVars, scopeVars, sliderVars, cellVars>>
notScope == <<running, firstVars, decoVars, sliderVars, cellVars>>
notSlider == <<running, firstVars, decoVars, scopeVars, cellVars>>
notCells == <<running, firstVars, decoVars, scopeVars, sliderVars>>
notGen == <<running, onlineVars, spiderVars, reactiveVars, namesVars, df,
    statesVars, chainVars, selectVars,
    laterVars>>
notOnline == <<running, genVars, spiderVars, reactiveVars, namesVars, df,
    statesVars, chainVars, selectVars,
    laterVars>>
notSpider == <<running, genVars, onlineVars, reactiveVars, namesVars, df,
    statesVars, chainVars, selectVars,
    laterVars>>
notReactive == <<running, genVars, onlineVars, spiderVars, namesVars, df,
    statesVars, chainVars, selectVars,
    laterVars>>
notNames == <<running, genVars, onlineVars, spiderVars, reactiveVars, df,
    statesVars, chainVars, selectVars,
    laterVars>>
\* df is loaded once, before the apps, and no callback changes it.
notStates == <<running, genVars, onlineVars, spiderVars, reactiveVars, namesVars, df,
    chainVars, selectVars,
    laterVars>>
notChain == <<running, genVars, onlineVars, spiderVars, reactiveVars, namesVars, df,
    statesVars, selectVars,
    laterVars>>
notSelect == <<running, genVars, onlineVars, spiderVars, reactiveVars, namesVars, df,
    statesVars, chainVars,
    laterVars>>

(***************************************************************************)
(* The idle values of every example: what its variables hold while another *)
(* script is the one being run.                                            *)
(***************************************************************************)
GenIdle ==
    /\ gen_n = 0 /\ gen_i = 0 /\ gen_state = "none" /\ gen_out = <<>>
    /\ gen_mode = "idle" /\ for_k = 0 /\ for_out = <<>> /\ for_done = FALSE
    /\ next_calls = 0 /\ next_raised = 0

OnlineIdle ==
    /\ dji_symbols = <<>> /\ loop_pos = 0 /\ response = "none"
    /\ requests = <<>> /\ online_out = <<>> /\ dji_hist = <<>>
    /\ online_pc = "idle"

SpiderIdle ==
    /\ spider = "none" /\ sp_started = FALSE /\ sp_issued = <<>>
    /\ sp_sched = {} /\ sp_calls = <<>> /\ sp_resp = "none" /\ sp_out = <<>>

ReactiveIdle ==
    /\ r_started = FALSE /\ inum = "idle" /\ outext = "idle"
    /\ r_pending = "idle" /\ r_error = FALSE

NamesIdle ==
    /\ n_started = FALSE /\ fname_i = <<>> /\ lname_i = <<>> /\ fname_o = <<>>
    /\ lname_o = <<>> /\ n_pending = "idle" /\ n_error = FALSE

StatesIdle ==
    /\ st_started = FALSE /\ comp_slider = 0 /\ company_dd = "idle"
    /\ n_clicks = 0 /\ outgraph = <<>> /\ st_pending = "idle" /\ st_calls = 0

ChainIdle ==
    /\ ch_started = FALSE /\ sector_dd = "idle" /\ dd_options = <<>>
    /\ dd_value = "idle" /\ ch_pend_options = "idle" /\ ch_pend_value = "idle"
    /\ ch_picked = FALSE

SelectIdle ==
    /\ sel_started = FALSE /\ graph_fig = <<>> /\ clickData = "idle"
    /\ selectedData = "idle" /\ sel_trigger = "idle" /\ table_data = "idle"

NoCall == [args |-> <<>>, kwargs |-> <<>>]

DecoIdle ==
    /\ deco_cell = 0 /\ deco_call = NoCall /\ deco_runs = <<>>
    /\ deco_out = <<>> /\ deco_pc = "idle"

NoFrame == [f |-> "none", pc |-> 0, local |-> <<>>]

ScopeIdle ==
    /\ x = 0 /\ sc_frame = NoFrame /\ sc_hist = <<>> /\ sc_out = <<>>

SliderIdle ==
    /\ sl_traces = <<>> /\ sl_pc = "idle" /\ sl_active = 0 /\ sl_moves = <<>>

CellsIdle ==
    /\ cl_script = "none" /\ cl_pos = 0 /\ cl_names = {} /\ cl_status = "idle"
    /\ cl_missing = {}

OthersIdle(me) ==
    /\ running = me
    /\ IF me = "gen" THEN TRUE ELSE GenIdle
    /\ IF me = "online" THEN TRUE ELSE OnlineIdle
    /\ IF me = "spider" THEN TRUE ELSE SpiderIdle
    /\ IF me = "reactive" THEN TRUE ELSE ReactiveIdle
    /\ IF me = "names" THEN TRUE ELSE NamesIdle
    /\ IF me \in {"states", "chain", "select"} THEN TRUE ELSE df = <<>>
    /\ IF me = "states" THEN TRUE ELSE StatesIdle
    /\ IF me = "chain" THEN TRUE ELSE ChainIdle
    /\ IF me = "select" THEN TRUE ELSE SelectIdle
    /\ IF me = "deco" THEN TRUE ELSE DecoIdle
    /\ IF me = "scope" THEN TRUE ELSE ScopeIdle
    /\ IF me = "slider" THEN TRUE ELSE SliderIdle
    /\ IF me = "cells" THEN TRUE ELSE CellsIdle

(***************************************************************************)
(* Bounds of the model.                                                    *)
(***************************************************************************)
MaxN == 6
MaxCalls == 8
NumSymbols == 6
MaxLinks == 2
MaxNum == 3
MaxName == 2
MaxRows == 3
MaxClicks == 2
MaxArgs == 2
MaxScopeCalls == 3
MaxPrints == 3
MaxMoves == 6

(***************************************************************************)
(* General helpers.                                                        *)
(***************************************************************************)
Range(s) == {s[j] : j \in DOMAIN s}

(***************************************************************************)
(* 05_online.py, In[23]-In[24]: the historical-price loop.                 *)
(***************************************************************************)

\* The ticker symbols the API can list; the model uses the first NumSymbols.
SymbolPool == <<"AAPL", "AMGN", "AXP", "BA", "CAT", "CRM", "CSCO", "CVX">>
Tickers == {SymbolPool[j] : j \in 1..NumSymbols}

\* The index constituents the API returns: a list of distinct symbols.
SymbolLists ==
    {l \in UNION {[1..k -> Tickers] : k \in 0..NumSymbols} :
        \A a, b \in DOMAIN l : a # b => l[a] # l[b]}

\* The status codes a response may carry, and the one the loop accepts.
StatusOk == 200
StatusCodes == {StatusOk, 404, 500}

\* dji_symbols[:5]
SliceLen == 5
FirstSymbols(l) == SubSeq(l, 1, IF Len(l) < SliceLen THEN Len(l) ELSE SliceLen)

\* Where the loop goes after it printed 'Error! Aborted': "break" leaves it.
AfterErrorContinue == "for"

AfterError == "done"

\* The state before the for statement: dji_hist = pd.DataFrame().
OnlineInit ==
    /\ dji_symbols \in SymbolLists
    /\ loop_pos = 0
    /\ response = "none"
    /\ requests = <<>>
    /\ online_out = <<>>
    /\ dji_hist = <<>>
    /\ online_pc = "for"

\* "for symbol in dji_symbols[:5]:" takes the next symbol and
\* "response = re.get(base_url+filing+'/'+symbol, params=params)" sends the
\* request; the server answers with some status code, or the call raises (no
\* connection) and the script ends with the exception.
GetResponse ==
    /\ running = "online"
    /\ online_pc = "for"
    /\ loop_pos < Len(FirstSymbols(dji_symbols))
    /\ loop_pos' = loop_pos + 1
    /\ requests' = Append(requests, FirstSymbols(dji_symbols)[loop_pos + 1])
    /\ \/ /\ response' \in StatusCodes
          /\ online_pc' = "check"
       \/ /\ response' = response
          /\ online_pc' = "raised"
    /\ UNCHANGED <<dji_symbols, online_out, dji_hist>>
    /\ UNCHANGED notOnline

\* The for statement finds dji_symbols[:5] exhausted.
LoopEnd ==
    /\ running = "online"
    /\ online_pc = "for"
    /\ loop_pos = Len(FirstSymbols(dji_symbols))
    /\ online_pc' = "done"
    /\ UNCHANGED <<dji_symbols, loop_pos, response, requests, online_out, dji_hist>>
    /\ UNCHANGED notOnline

\* "if response.status_code != 200: print('Error! Aborted'); break"
CheckStatus ==
    /\ running = "online"
    /\ online_pc = "check"
    /\ IF response # StatusOk
       THEN /\ online_out' = Append(online_out, "Error! Aborted")
            /\ online_pc' = AfterError
       ELSE /\ online_out' = online_out
            /\ online_pc' = "collect"
    /\ UNCHANGED <<dji_symbols, loop_pos, response, requests, dji_hist>>
    /\ UNCHANGED notOnline

\* temp_df gets the symbol column and is concatenated to dji_hist.
Collect ==
    /\ running = "online"
    /\ online_pc = "collect"
    /\ dji_hist' = Append(dji_hist, requests[Len(requests)])
    /\ online_pc' = "for"
    /\ UNCHANGED <<dji_symbols, loop_pos, response, requests, online_out>>
    /\ UNCHANGED notOnline

NextOnline == GetResponse \/ LoopEnd \/ CheckStatus \/ Collect

InitOnline == OnlineInit /\ OthersIdle("online")

SpecOnline == InitOnline /\ [][NextOnline]_vars

\* C1: in the historical-price loop a response whose status code is not 200 is
\* only reported: 'Error! Aborted' is printed and the loop stops at once; no
\* request is sent a second time (every symbol is requested at most once, in
\* the order of dji_symbols[:5]) and no symbol after the failing one is
\* requested.
OnlineErrorAbortsWithoutRetry ==
    /\ [](/\ \A a, b \in DOMAIN requests : a # b => requests[a] # requests[b]
          /\ Len(requests) <= SliceLen
          /\ requests = SubSeq(dji_symbols, 1, Len(requests)))
    /\ [][(online_pc = "check" /\ response # StatusOk) =>
             /\ online_pc' = "done"
             /\ online_out' = Append(online_out, "Error! Aborted")
             /\ requests' = requests
             /\ dji_hist' = dji_hist]_vars
    /\ [][("Error! Aborted" \in Range(online_out)) =>
             /\ requests' = requests
             /\ online_pc' = "done"]_vars

\* The third request failed: it was reported, and the two symbols after it
\* were never requested.
OnlineAbortedAtThird ==
    /\ Len(dji_symbols) >= SliceLen
    /\ online_pc = "done"
    /\ response = 404
    /\ online_out = <<"Error! Aborted">>
    /\ Len(requests) = 3
    /\ Len(dji_hist) = 2

(***************************************************************************)
(* 06_scraping.py: mySpider (In[29]-In[30]) and followSpider (In[1]-In[2]). *)
(* The spiders are run by scrapy's engine, which is no part of the         *)
(* repository: the model lets it hand every response to the callback of    *)
(* its request, or drop a request (a duplicate, a failed download).        *)
(***************************************************************************)

\* urls = ['http://www.example.com']
SeedUrl == [host |-> "www.example.com", path |-> "/"]

\* The href values a page may hold: absolute ones, and relative ones (no
\* host), which response.follow resolves against the page's own URL.
Hrefs ==
    { [host |-> "www.iana.org", path |-> "/domains/example"],
      [host |-> "", path |-> "/more"] }

LinkLists == UNION {[1..k -> Hrefs] : k \in 0..MaxLinks}

\* The texts of the p elements of a page.
ParaLists == { <<>>, <<"This domain is for use in examples. ", "More information...">> }

\* response.follow(url=link): urljoin of the response's URL and the link.
UrlJoin(base, href) ==
    IF href.host = "" THEN [host |-> base.host, path |-> href.path] ELSE href

\* ''.join(list of strings)
RECURSIVE Join(_)
Join(l) == IF l = <<>> THEN "" ELSE Head(l) \o Join(Tail(l))

\* The callback start_requests attaches to the request of the seed URL:
\* self.parse in mySpider, self.parse_links in followSpider.
SeedCallbackAlwaysParse(sp) == "parse"

SeedCallback(sp) == IF sp = "my_first" THEN "parse" ELSE "parse_links"

\* def start_requests(self): for url in urls: yield scrapy.Request(url, callback)
start_requests(sp) ==
    << [url |-> SeedUrl, callback |-> SeedCallback(sp), parent |-> 0] >>

\* str(url) as print shows it.
UrlStr(u) == "http://" \o u.host \o u.path

\* str(list of strings) as print shows it: ['a', 'b']
RECURSIVE ListItems(_)
ListItems(l) ==
    IF l = <<>> THEN ""
    ELSE "'" \o Head(l) \o "'" \o
         (IF Tail(l) = <<>> THEN "" ELSE ", " \o ListItems(Tail(l)))

ListStr(l) == "[" \o ListItems(l) \o "]"

\* mySpider.parse: print(response.css('p::text').extract())
MyParse(resp) == [out |-> << ListStr(resp.paras) >>, reqs |-> <<>>]

\* followSpider.parse_links: prints the joined text, then yields
\* response.follow(url=link, callback=self.parse) for every link.
ParseLinksFirstOnly(resp) ==
    [out |-> << Join(resp.paras) >>,
     reqs |-> [j \in 1..(IF Len(resp.links) > 0 THEN 1 ELSE 0) |->
                  [url |-> UrlJoin(resp.url, resp.links[j]), callback |-> "parse"]]]

ParseLinks(resp) ==
    [out |-> << Join(resp.paras) >>,
     reqs |-> [j \in 1..Len(resp.links) |->
                  [url |-> UrlJoin(resp.url, resp.links[j]), callback |-> "parse"]]]

\* followSpider.parse: print(response.url); print(''.join(...))
FollowParse(resp) ==
    [out |-> << UrlStr(resp.url), Join(resp.paras) >>, reqs |-> <<>>]

\* The method of the spider class a callback name is bound to.
RunCallback(sp, cb, resp) ==
    CASE sp = "my_first" -> MyParse(resp)
      [] sp = "my_second" /\ cb = "parse_links" -> ParseLinks(resp)
      [] OTHER -> FollowParse(resp)

\* proc = CrawlerProcess(); proc.crawl(<spider class>)
SpiderInit ==
    /\ spider \in {"my_first", "my_second"}
    /\ sp_started = FALSE
    /\ sp_issued = <<>>
    /\ sp_sched = {}
    /\ sp_calls = <<>>
    /\ sp_resp = "none"
    /\ sp_out = <<>>

\* proc.start(): the engine takes the requests of start_requests().
StartRequests ==
    /\ running = "spider"
    /\ spider # "none"
    /\ ~sp_started
    /\ sp_started' = TRUE
    /\ sp_issued' = start_requests(spider)
    /\ sp_sched' = DOMAIN start_requests(spider)
    /\ UNCHANGED <<spider, sp_calls, sp_resp, sp_out>>
    /\ UNCHANGED notSpider

\* The download of request r is complete: the engine calls the request's
\* callback with the response, prints what the callback prints and takes the
\* requests it yields.
Deliver(r) ==
    /\ running = "spider"
    /\ r \in sp_sched
    /\ \E links \in LinkLists, paras \in ParaLists :
        LET resp == [url |-> sp_issued[r].url, links |-> links, paras |-> paras]
            res == RunCallback(spider, sp_issued[r].callback, resp)
            k == Len(sp_calls) + 1
            n == Len(sp_issued)
        IN  /\ sp_resp' = resp
            /\ sp_calls' = Append(sp_calls,
                   [callback |-> sp_issued[r].callback, req |-> r,
                    url |-> resp.url, paras |-> paras])
            /\ sp_out' = sp_out \o
                   [j \in 1..Len(res.out) |-> [call |-> k, value |-> res.out[j]]]
            /\ sp_issued' = sp_issued \o
                   [j \in 1..Len(res.reqs) |->
                       [url |-> res.reqs[j].url, callback |-> res.reqs[j].callback,
                        parent |-> r]]
            /\ sp_sched' = (sp_sched \ {r}) \cup (n + 1)..(n + Len(res.reqs))
    /\ UNCHANGED <<spider, sp_started>>
    /\ UNCHANGED notSpider

\* The engine gives request r up without a response: its duplicate filter
\* has seen the URL, or the download failed.  No callback is called.
Drop(r) ==
    /\ running = "spider"
    /\ r \in sp_sched
    /\ sp_sched' = sp_sched \ {r}
    /\ UNCHANGED <<spider, sp_started, sp_issued, sp_calls, sp_resp, sp_out>>
    /\ UNCHANGED notSpider

NextSpider ==
    \/ StartRequests
    \/ \E r \in DOMAIN sp_issued : Deliver(r)
    \/ \E r \in DOMAIN sp_issued : Drop(r)

InitSpider == SpiderInit /\ OthersIdle("spider")

SpecSpider == InitSpider /\ [][NextSpider]_vars

\* The values printed during callback invocation k, in order.
LinesOfCall(k) ==
    LET mine == SelectSeq(sp_out, LAMBDA e : e.call = k)
    IN  [j \in DOMAIN mine |-> mine[j].value]

\* C2: the crawl of followSpider goes seed URL -> fetch -> parse links ->
\* follow: the only request of start_requests is the seed URL; on its
\* response parse_links prints the page text and yields one follow-up request
\* for every link of that page (the link resolved against the page's URL,
\* callback parse); for every page fetched through a follow-up request its URL
\* and then its text are printed.
FollowSpiderFollowsEveryLink ==
    /\ [](spider = "my_second" =>
          /\ \A r \in DOMAIN sp_issued :
                IF r = 1
                THEN sp_issued[r] =
                        [url |-> SeedUrl, callback |-> "parse_links", parent |-> 0]
                ELSE sp_issued[r].parent = 1 /\ sp_issued[r].callback = "parse"
          /\ \A k \in DOMAIN sp_calls :
                IF sp_calls[k].req = 1
                THEN /\ sp_calls[k].callback = "parse_links"
                     /\ sp_calls[k].url = SeedUrl
                     /\ LinesOfCall(k) = << Join(sp_calls[k].paras) >>
                ELSE /\ sp_calls[k].callback = "parse"
                     /\ sp_calls[k].url = sp_issued[sp_calls[k].req].url
                     /\ LinesOfCall(k) =
                           << UrlStr(sp_calls[k].url), Join(sp_calls[k].paras) >>)
    /\ [][(/\ spider = "my_second"
            /\ Len(sp_calls') = Len(sp_calls) + 1
            /\ sp_calls'[Len(sp_calls')].callback = "parse_links") =>
             /\ sp_issued' = sp_issued \o
                   [j \in 1..Len(sp_resp'.links) |->
                       [url |-> UrlJoin(sp_resp'.url, sp_resp'.links[j]),
                        callback |-> "parse",
                        parent |-> sp_calls'[Len(sp_calls')].req]]
             /\ sp_sched' = (Len(sp_issued) + 1)..Len(sp_issued')]_vars

\* followSpider fetched the seed page, found two links there and fetched both
\* pages: five values were printed.
FollowSpiderFetchedTwoLinks ==
    /\ spider = "my_second"
    /\ Len(sp_issued) = 3
    /\ sp_issued[2].url = [host |-> "www.example.com", path |-> "/more"]
    /\ sp_sched = {}
    /\ Len(sp_calls) = 3
    /\ Len(sp_out) = 5

NoRequest == [t |-> "no request"]

(***************************************************************************)
(* In[1]: 'inum' -> div_outext -> 'outext'.                                *)
(***************************************************************************)

\* Python values of the property 'value' of a dcc.Input of type 'number':
\* the string given in the layout, a number, or None (the field was emptied
\* or holds no valid number).
PyStrVal(str) == [t |-> "str", s |-> str, n |-> 0]
PyIntVal(k) == [t |-> "int", s |-> "", n |-> k]
PyNone == [t |-> "None", s |-> "", n |-> 0]

\* dcc.Input(id='inum', value='', type='number')
InumInitial == PyStrVal("")

\* What the user can turn 'inum' into.
InumEntered == {PyIntVal(k) : k \in (0 - MaxNum)..MaxNum} \cup {PyNone}

\* html.P(id='outext'): no children given.
NoChildren == "<no children>"

\* num*2 in Python: a string is repeated, a number is doubled, None raises
\* TypeError.
PyTimesTwo(v) ==
    CASE v.t = "str" -> [ok |-> TRUE, value |-> PyStrVal(v.s \o v.s)]
      [] v.t = "int" -> [ok |-> TRUE, value |-> PyIntVal(v.n * 2)]
      [] OTHER -> [ok |-> FALSE, value |-> PyNone]

\* The text an f-string puts in for {value}.
PyFormat(v) ==
    CASE v.t = "str" -> v.s
      [] v.t = "int" -> ToString(v.n)
      [] OTHER -> "None"

\* def div_outext(num): return f'times two: {num*2}'
div_outext(num) ==
    LET m == PyTimesTwo(num)
    IN  IF m.ok
        THEN [ok |-> TRUE, children |-> "times two: " \o PyFormat(m.value)]
        ELSE [ok |-> FALSE, children |-> ""]

ReactiveInit ==
    /\ r_started = FALSE
    /\ inum = InumInitial
    /\ outext = NoChildren
    /\ r_pending = NoRequest
    /\ r_error = FALSE

\* app.run_server(...) and the page is opened: Dash runs all callbacks.
ReactiveStart ==
    /\ running = "reactive"
    /\ ~r_started
    /\ r_started' = TRUE
    /\ r_pending' = inum
    /\ UNCHANGED <<inum, outext, r_error>>
    /\ UNCHANGED notReactive

\* The user enters a number, clicks the arrows or empties the field: 'inum'
\* changes (emptying a field that holds no number changes nothing) and the
\* callback of Input('inum', 'value') is requested with the new value.
ChangeInum(v) ==
    /\ running = "reactive"
    /\ r_started
    /\ v \in InumEntered
    /\ v # inum
    /\ v = PyNone => inum.t = "int"
    /\ inum' = v
    /\ r_pending' = v
    /\ UNCHANGED <<r_started, outext, r_error>>
    /\ UNCHANGED notReactive

\* The request in flight is answered: div_outext runs with the argument sent
\* and its result becomes the children of 'outext'.
ReactiveRespond ==
    /\ running = "reactive"
    /\ r_pending # NoRequest
    /\ LET res == div_outext(r_pending)
       IN  /\ outext' = IF res.ok THEN res.children ELSE outext
           /\ r_error' = ~res.ok
    /\ r_pending' = NoRequest
    /\ UNCHANGED <<r_started, inum>>
    /\ UNCHANGED notReactive

NextReactive ==
    \/ ReactiveStart
    \/ \E v \in InumEntered : ChangeInum(v)
    \/ ReactiveRespond

InitReactive == ReactiveInit /\ OthersIdle("reactive")

SpecReactive == InitReactive /\ [][NextReactive]_vars

\* C7: in the first reactive example, when the app starts and every time the
\* value of 'inum' changes, div_outext is called with the current value and
\* the children of 'outext' become 'times two: ' followed by that value
\* multiplied by two: once the request has been answered, 'outext' shows the
\* text for the value 'inum' holds.
OutextShowsTimesTwo ==
    (r_started /\ r_pending = NoRequest) =>
        /\ PyTimesTwo(inum).ok
        /\ outext = "times two: " \o PyFormat(PyTimesTwo(inum).value)

(***************************************************************************)
(* In[2]: 'fname_i', 'lname_i' -> div_outext -> 'fname_o', 'lname_o'.      *)
(***************************************************************************)

\* The texts the user can type: lists of characters.
NameChars == {"a", "b"}
NamesTyped == UNION {[1..k -> NameChars] : k \in 0..MaxName}

\* value='otto', value='renner'
FnameInitial == <<"o", "t", "t", "o">>
LnameInitial == <<"r", "e", "n", "n", "e", "r">>

\* html.P(id='fname_o', ...): no children given.  Texts are lists of
\* characters here, and this one is none the user can type.
NoText == << "<no children>" >>

\* s[::-1]
Reversed(str) == [j \in 1..Len(str) |-> str[Len(str) + 1 - j]]

\* def div_outext(fname, lname): if fname: return fname[::-1], lname[::-1]
\* With an empty fname the function ends without a return statement: it
\* gives None, which is no pair of values for the two Outputs.
div_outext_2(fname, lname) ==
    IF fname # <<>>
    THEN [ok |-> TRUE, first |-> Reversed(fname), second |-> Reversed(lname)]
    ELSE [ok |-> FALSE, first |-> <<>>, second |-> <<>>]

NamesInit ==
    /\ n_started = FALSE
    /\ fname_i = FnameInitial
    /\ lname_i = LnameInitial
    /\ fname_o = NoText
    /\ lname_o = NoText
    /\ n_pending = NoRequest
    /\ n_error = FALSE

\* The app starts: Dash runs the callback with the values of the layout.
NamesStart ==
    /\ running = "names"
    /\ ~n_started
    /\ n_started' = TRUE
    /\ n_pending' = [t |-> "request", fname |-> fname_i, lname |-> lname_i]
    /\ UNCHANGED <<fname_i, lname_i, fname_o, lname_o, n_error>>
    /\ UNCHANGED notNames

\* The user edits the first-name field: Input('fname_i', 'value') changes.
ChangeFname(v) ==
    /\ running = "names"
    /\ n_started
    /\ v \in NamesTyped
    /\ v # fname_i
    /\ fname_i' = v
    /\ n_pending' = [t |-> "request", fname |-> v, lname |-> lname_i]
    /\ UNCHANGED <<n_started, lname_i, fname_o, lname_o, n_error>>
    /\ UNCHANGED notNames

\* The user edits the last-name field: Input('lname_i', 'value') changes.
ChangeLname(v) ==
    /\ running = "names"
    /\ n_started
    /\ v \in NamesTyped
    /\ v # lname_i
    /\ lname_i' = v
    /\ n_pending' = [t |-> "request", fname |-> fname_i, lname |-> v]
    /\ UNCHANGED <<n_started, fname_i, fname_o, lname_o, n_error>>
    /\ UNCHANGED notNames

\* The request in flight is answered: the first returned value goes to the
\* first Output ('fname_o'), the second to the second ('lname_o').
NamesRespond ==
    /\ running = "names"
    /\ n_pending # NoRequest
    /\ LET res == div_outext_2(n_pending.fname, n_pending.lname)
       IN  /\ fname_o' = IF res.ok THEN res.first ELSE fname_o
           /\ lname_o' = IF res.ok THEN res.second ELSE lname_o
           /\ n_error' = ~res.ok
    /\ n_pending' = NoRequest
    /\ UNCHANGED <<n_started, fname_i, lname_i>>
    /\ UNCHANGED notNames

NextNames ==
    \/ NamesStart
    \/ \E v \in NamesTyped : ChangeFname(v)
    \/ \E v \in NamesTyped : ChangeLname(v)
    \/ NamesRespond

InitNames == NamesInit /\ OthersIdle("names")

SpecNames == InitNames /\ [][NextNames]_vars

\* C8: in the several-inputs example the Inputs match the function arguments
\* and the Outputs match the returned values in order: after any change of
\* 'fname_i' or 'lname_i' (and once it has been answered) 'fname_o' shows the
\* first-name input reversed and 'lname_o' shows the last-name input reversed,
\* never the other way round.
OutputsShowReversedNames ==
    (n_started /\ n_pending = NoRequest) =>
        /\ fname_o = Reversed(fname_i)
        /\ lname_o = Reversed(lname_i)

(***************************************************************************)
(* 10_dash_II.py, In[3]: df = pd.read_csv('data/dji_sector_prices.csv'),   *)
(* restricted to the year 2021 and given the column month.                 *)
(***************************************************************************)

\* Rows the file may hold.
CsvRowPool ==
    { [symbol |-> "PG", sector |-> "Consumer Defensive",
       date |-> [year |-> 2021, month |-> 5, day |-> 3], open |-> 135, change |-> 1],
      [symbol |-> "AAPL", sector |-> "Technology",
       date |-> [year |-> 2021, month |-> 5, day |-> 3], open |-> 132, change |-> 0 - 1],
      [symbol |-> "MSFT", sector |-> "Technology",
       date |-> [year |-> 2021, month |-> 6, day |-> 1], open |-> 251, change |-> 2],
      [symbol |-> "PG", sector |-> "Consumer Defensive",
       date |-> [year |-> 2021, month |-> 6, day |-> 1], open |-> 136, change |-> 0],
      [symbol |-> "AAPL", sector |-> "Technology",
       date |-> [year |-> 2020, month |-> 5, day |-> 4], open |-> 72, change |-> 3] }

\* The files: up to MaxRows different rows in any order.
CsvFiles ==
    {f \in UNION {[1..k -> CsvRowPool] : k \in 1..MaxRows} :
        \A a, b \in DOMAIN f : a # b => f[a] # f[b]}

\* df = df[df.date.dt.year == 2021]
DataYear == 2021

\* df['month'] = [el.month for el in df.date]
WithMonth(row) ==
    [symbol |-> row.symbol, sector |-> row.sector, date |-> row.date,
     open |-> row.open, change |-> row.change, month |-> row.date.month]

LoadDf(csv) ==
    LET kept == SelectSeq(csv, LAMBDA row : row.date.year = DataYear)
    IN  [j \in DOMAIN kept |-> WithMonth(kept[j])]

\* Series.unique(): the different values in the order of their first
\* appearance.
RECURSIVE Unique(_)
Unique(l) ==
    IF l = <<>> THEN <<>>
    ELSE LET front == Unique(SubSeq(l, 1, Len(l) - 1))
             last == l[Len(l)]
         IN  IF last \in Range(front) THEN front ELSE Append(front, last)

Column(frame, col) == [j \in DOMAIN frame |-> frame[j][col]]

SetMin(S) == CHOOSE v \in S : \A y \in S : v <= y
SetMax(S) == CHOOSE v \in S : \A y \in S : v >= y

\* The script gets as far as the apps only with a dataframe that has rows:
\* min(df.month) of the layouts raises on an empty one.
DfInit ==
    /\ df \in {LoadDf(csv) : csv \in CsvFiles}
    /\ df # <<>>

(***************************************************************************)
(* In[6]: States.  'update' is the Input of make_outgraph, 'comp_slider'   *)
(* and 'company_dd' are its States.                                        *)
(***************************************************************************)

\* The properties given as Input(...) to app.callback: a change of one of
\* them requests the callback.
OutgraphInputsWithSlider == {"update.n_clicks", "comp_slider.value"}

OutgraphInputs == {"update.n_clicks"}

\* dcc.Slider(..., value=5)
SliderInitial == 5

\* def make_outgraph(n_clicks, month, sym): the line of open over date for
\* the rows of the symbol and the month.
make_outgraph(clicks, month, sym) ==
    LET dftemp == SelectSeq(df, LAMBDA row : row.symbol = sym)
        dftemp2 == SelectSeq(dftemp, LAMBDA row : row.month = month)
    IN  [j \in DOMAIN dftemp2 |-> [x |-> dftemp2[j].date, y |-> dftemp2[j].open]]

\* dcc.Graph(id='outgraph'): no figure given.  Figures are lists of points
\* here, and this one is none make_outgraph can return.
NoFigure == << [x |-> [year |-> 0, month |-> 0, day |-> 0], y |-> 0] >>

\* The request a change of the property prop causes: the callback's Input
\* and State values as they are now.
OutgraphRequest(prop, clicks, month, sym, pending) ==
    IF prop \in OutgraphInputs
    THEN [t |-> "request", n_clicks |-> clicks, month |-> month, sym |-> sym]
    ELSE pending

StatesInit ==
    /\ st_started = FALSE
    /\ comp_slider = SliderInitial
    /\ company_dd = Unique(Column(df, "symbol"))[1]
    /\ n_clicks = 0
    /\ outgraph = NoFigure
    /\ st_pending = NoRequest
    /\ st_calls = 0

\* The app starts: Dash runs the callback with the values of the layout.
StatesStart ==
    /\ running = "states"
    /\ ~st_started
    /\ st_started' = TRUE
    /\ st_pending' =
          [t |-> "request", n_clicks |-> n_clicks, month |-> comp_slider,
           sym |-> company_dd]
    /\ UNCHANGED <<comp_slider, company_dd, n_clicks, outgraph, st_calls>>
    /\ UNCHANGED notStates

\* The user moves the slider to a month between min(df.month) and
\* max(df.month).
MoveSlider(m) ==
    /\ running = "states"
    /\ st_started
    /\ m \in SetMin(Range(Column(df, "month")))..SetMax(Range(Column(df, "month")))
    /\ m # comp_slider
    /\ comp_slider' = m
    /\ st_pending' =
          OutgraphRequest("comp_slider.value", n_clicks, m, company_dd, st_pending)
    /\ UNCHANGED <<st_started, company_dd, n_clicks, outgraph, st_calls>>
    /\ UNCHANGED notStates

\* The user selects one of the options of the dropdown.
SelectCompany(sym) ==
    /\ running = "states"
    /\ st_started
    /\ sym \in Range(Unique(Column(df, "symbol")))
    /\ sym # company_dd
    /\ company_dd' = sym
    /\ st_pending' =
          OutgraphRequest("company_dd.value", n_clicks, comp_slider, sym, st_pending)
    /\ UNCHANGED <<st_started, comp_slider, n_clicks, outgraph, st_calls>>
    /\ UNCHANGED notStates

\* The user clicks the button 'update'.
ClickUpdate ==
    /\ running = "states"
    /\ st_started
    /\ n_clicks < MaxClicks
    /\ n_clicks' = n_clicks + 1
    /\ st_pending' =
          OutgraphRequest("update.n_clicks", n_clicks + 1, comp_slider, company_dd,
                          st_pending)
    /\ UNCHANGED <<st_started, comp_slider, company_dd, outgraph, st_calls>>
    /\ UNCHANGED notStates

\* The request in flight is answered: make_outgraph runs with the arguments
\* sent and its result becomes the figure of 'outgraph'.
StatesRespond ==
    /\ running = "states"
    /\ st_pending # NoRequest
    /\ outgraph' = make_outgraph(st_pending.n_clicks, st_pending.month, st_pending.sym)
    /\ st_calls' = st_calls + 1
    /\ st_pending' = NoRequest
    /\ UNCHANGED <<st_started, comp_slider, company_dd, n_clicks>>
    /\ UNCHANGED notStates

NextStates ==
    \/ StatesStart
    \/ \E m \in 1..12 : MoveSlider(m)
    \/ \E sym \in {row.symbol : row \in CsvRowPool} : SelectCompany(sym)
    \/ ClickUpdate
    \/ StatesRespond

InitStates == DfInit /\ StatesInit /\ OthersIdle("states")

SpecStates == InitStates /\ [][NextStates]_vars

\* C4: in the States example a change of the slider 'comp_slider' or of the
\* dropdown 'company_dd' never calls make_outgraph and never changes the
\* figure of 'outgraph'; after the call Dash makes when the app starts, the
\* figure is computed only for a click on 'update', from the slider and
\* dropdown values of the moment of the click.
FigureOnlyOnUpdateClick ==
    /\ [][(comp_slider' # comp_slider \/ company_dd' # company_dd) =>
             /\ outgraph' = outgraph
             /\ st_calls' = st_calls
             /\ st_pending' = st_pending]_vars
    /\ [][(st_pending' # st_pending /\ st_pending' # NoRequest) =>
             /\ IF st_started THEN n_clicks' = n_clicks + 1 ELSE n_clicks' = 0
             /\ st_pending' =
                   [t |-> "request", n_clicks |-> n_clicks', month |-> comp_slider,
                    sym |-> company_dd]
             /\ comp_slider' = comp_slider /\ company_dd' = company_dd]_vars
    /\ [][(outgraph' # outgraph \/ st_calls' # st_calls) =>
             /\ st_pending # NoRequest
             /\ st_calls' = st_calls + 1
             /\ outgraph' =
                   make_outgraph(st_pending.n_clicks, st_pending.month, st_pending.sym)]_vars

\* The figure of the first click is on display, and the slider has been moved
\* since: the figure is not the one of the slider's present value.
FigureOfClickAfterSliderMoved ==
    /\ st_started
    /\ n_clicks = 1
    /\ st_calls = 2
    /\ st_pending = NoRequest
    /\ outgraph # <<>>
    /\ outgraph # make_outgraph(n_clicks, comp_slider, company_dd)

(***************************************************************************)
(* In[7]: 'sector_dd' -> set_options_company_dd -> options of 'company_dd' *)
(* -> set_default_company_dd -> value of 'company_dd'.                     *)
(***************************************************************************)

\* def set_options_company_dd(sector):
\*     return [{'label': i, 'value': i} for i in df[df.sector==sector].symbol.unique()]
set_options_all_symbols(sector) ==
    LET syms == Unique(Column(df, "symbol"))
    IN  [j \in DOMAIN syms |-> [label |-> syms[j], value |-> syms[j]]]

set_options_company_dd(sector) ==
    LET syms == Unique(Column(SelectSeq(df, LAMBDA row : row.sector = sector),
                              "symbol"))
    IN  [j \in DOMAIN syms |-> [label |-> syms[j], value |-> syms[j]]]

\* def set_default_company_dd(ops): return ops[0]['value']
\* ops[0] of an empty list raises IndexError.
set_default_company_dd(ops) ==
    IF ops = <<>> THEN [ok |-> FALSE, value |-> ""]
    ELSE [ok |-> TRUE, value |-> ops[1].value]

\* The layout: sector_dd has the first sector of df, company_dd the first
\* symbol of df and no options.
ChainInit ==
    /\ ch_started = FALSE
    /\ sector_dd = Unique(Column(df, "sector"))[1]
    /\ dd_options = <<>>
    /\ dd_value = Unique(Column(df, "symbol"))[1]
    /\ ch_pend_options = NoRequest
    /\ ch_pend_value = NoRequest
    /\ ch_picked = FALSE

\* The app starts: Dash runs set_options_company_dd with the sector of the
\* layout; set_default_company_dd, whose Input is the Output of that call,
\* waits for it.
ChainStart ==
    /\ running = "chain"
    /\ ~ch_started
    /\ ch_started' = TRUE
    /\ ch_pend_options' = [t |-> "request", sector |-> sector_dd]
    /\ UNCHANGED <<sector_dd, dd_options, dd_value, ch_pend_value, ch_picked>>
    /\ UNCHANGED notChain

\* The user selects one of the options of 'sector_dd'.
SelectSector(sector) ==
    /\ running = "chain"
    /\ ch_started
    /\ sector \in Range(Unique(Column(df, "sector")))
    /\ sector # sector_dd
    /\ sector_dd' = sector
    /\ ch_pend_options' = [t |-> "request", sector |-> sector]
    /\ UNCHANGED <<ch_started, dd_options, dd_value, ch_pend_value, ch_picked>>
    /\ UNCHANGED notChain

\* The user selects one of the present options of 'company_dd'; its value
\* is the Input of no callback.
PickCompany(sym) ==
    /\ running = "chain"
    /\ ch_started
    /\ sym \in {dd_options[j].value : j \in DOMAIN dd_options}
    /\ sym # dd_value
    /\ dd_value' = sym
    /\ ch_picked' = TRUE
    /\ UNCHANGED <<ch_started, sector_dd, dd_options, ch_pend_options, ch_pend_value>>
    /\ UNCHANGED notChain

\* The set_options_company_dd request is answered: the options of
\* 'company_dd' are set, and as they are the Input of
\* set_default_company_dd, that callback is requested with them.
RespondOptions ==
    /\ running = "chain"
    /\ ch_pend_options # NoRequest
    /\ LET ops == set_options_company_dd(ch_pend_options.sector)
       IN  /\ dd_options' = ops
           /\ ch_pend_value' = [t |-> "request", ops |-> ops]
    /\ ch_pend_options' = NoRequest
    /\ UNCHANGED <<ch_started, sector_dd, dd_value, ch_picked>>
    /\ UNCHANGED notChain

\* The set_default_company_dd request is answered.
RespondValue ==
    /\ running = "chain"
    /\ ch_pend_value # NoRequest
    /\ LET res == set_default_company_dd(ch_pend_value.ops)
       IN  /\ dd_value' = IF res.ok THEN res.value ELSE dd_value
           /\ ch_picked' = IF res.ok THEN FALSE ELSE ch_picked
    /\ ch_pend_value' = NoRequest
    /\ UNCHANGED <<ch_started, sector_dd, dd_options, ch_pend_options>>
    /\ UNCHANGED notChain

NextChain ==
    \/ ChainStart
    \/ \E sector \in {row.sector : row \in CsvRowPool} : SelectSector(sector)
    \/ \E sym \in {row.symbol : row \in CsvRowPool} : PickCompany(sym)
    \/ RespondOptions
    \/ RespondValue

InitChain == DfInit /\ ChainInit /\ OthersIdle("chain")

SpecChain == InitChain /\ [][NextChain]_vars

\* C5: in the chained-callback example, after any sequence of selections in
\* 'sector_dd' and once both callbacks have run, the options of 'company_dd'
\* are exactly the distinct symbols of the selected sector, each once, and
\* the value of 'company_dd' is the first of these options (until the user
\* chooses another of them), so the value is always one of the options.
CompanyOptionsFollowSector ==
    (ch_started /\ ch_pend_options = NoRequest /\ ch_pend_value = NoRequest) =>
        /\ {dd_options[j].value : j \in DOMAIN dd_options} =
              {df[k].symbol : k \in {k \in DOMAIN df : df[k].sector = sector_dd}}
        /\ \A a, b \in DOMAIN dd_options :
              a # b => dd_options[a].value # dd_options[b].value
        /\ \A j \in DOMAIN dd_options : dd_options[j].label = dd_options[j].value
        /\ dd_options # <<>>
        /\ dd_value \in {dd_options[j].value : j \in DOMAIN dd_options}
        /\ ~ch_picked => dd_value = dd_options[1].value

\* Another sector than the first was selected, both callbacks have run, and
\* 'company_dd' offers its two companies with the first one selected.
SectorWithTwoCompaniesSelected ==
    /\ ch_started
    /\ ch_pend_options = NoRequest
    /\ ch_pend_value = NoRequest
    /\ sector_dd = "Technology"
    /\ sector_dd # Unique(Column(df, "sector"))[1]
    /\ Len(dd_options) = 2
    /\ ~ch_picked
    /\ dd_value = dd_options[1].value

(***************************************************************************)
(* In[9]: 'graph' (selectedData, clickData) -> update_table -> 'table'.    *)
(***************************************************************************)

\* def build_figure(df): one scatter trace, x=df.open, y=df.change.  The
\* point with pointIndex j is the row in place j (from 0) of the dataframe
\* the function is given.
build_figure(frame) ==
    [j \in DOMAIN frame |-> [x |-> frame[j].open, y |-> frame[j].change]]

\* df[df.symbol == 'PG']
GraphFrame == SelectSeq(df, LAMBDA row : row.symbol = "PG")

\* clickData / selectedData before any click or selection: None.
NoPoints == << "None" >>

\* The value of the DataTable's data when update_table returns None.
NoRows == [set |-> FALSE, rows |-> <<>>]

\* df.iloc[selection]: the rows in the places of selection (from 0).
Iloc(frame, selection) ==
    [k \in DOMAIN selection |-> frame[selection[k] + 1]]

\* def update_table(selectedData, clickData), with trigger =
\* dash.callback_context.triggered[0]["prop_id"].
update_table(selected, clicked, trigger) ==
    IF trigger = "graph.selectedData"
    THEN [set |-> TRUE, rows |-> Iloc(df, selected)]
    ELSE IF trigger = "graph.clickData"
         THEN [set |-> TRUE, rows |-> Iloc(df, clicked)]
         ELSE NoRows

\* The points of a lasso selection in the order of the trace.
RECURSIVE Ascending(_)
Ascending(S) ==
    IF S = {} THEN <<>>
    ELSE <<SetMin(S)>> \o Ascending(S \ {SetMin(S)})

SelectInit ==
    /\ sel_started = FALSE
    /\ graph_fig = build_figure(GraphFrame)
    /\ clickData = NoPoints
    /\ selectedData = NoPoints
    /\ sel_trigger = "none"
    /\ table_data = NoRows

\* The app starts: Dash runs update_table; nothing has triggered it, the
\* prop_id is '.'.
SelectStart ==
    /\ running = "select"
    /\ ~sel_started
    /\ sel_started' = TRUE
    /\ sel_trigger' = "."
    /\ table_data' = update_table(selectedData, clickData, ".")
    /\ UNCHANGED <<graph_fig, clickData, selectedData>>
    /\ UNCHANGED notSelect

\* The user clicks the point with pointIndex j: clickData changes and
\* update_table runs.
ClickPoint(j) ==
    /\ running = "select"
    /\ sel_started
    /\ j + 1 \in DOMAIN graph_fig
    /\ clickData' = <<j>>
    /\ sel_trigger' = "graph.clickData"
    /\ table_data' = update_table(selectedData, <<j>>, "graph.clickData")
    /\ UNCHANGED <<sel_started, graph_fig, selectedData>>
    /\ UNCHANGED notSelect

\* The user draws a lasso around the points S: selectedData changes and
\* update_table runs.
LassoPoints(S) ==
    /\ running = "select"
    /\ sel_started
    /\ S # {}
    /\ \A j \in S : j + 1 \in DOMAIN graph_fig
    /\ selectedData' = Ascending(S)
    /\ sel_trigger' = "graph.selectedData"
    /\ table_data' = update_table(Ascending(S), clickData, "graph.selectedData")
    /\ UNCHANGED <<sel_started, graph_fig, clickData>>
    /\ UNCHANGED notSelect

NextSelect ==
    \/ SelectStart
    \/ \E j \in 0..(MaxRows - 1) : ClickPoint(j)
    \/ \E S \in SUBSET (0..(MaxRows - 1)) : LassoPoints(S)

InitSelect == DfInit /\ SelectInit /\ OthersIdle("select")

SpecSelect == InitSelect /\ [][NextSelect]_vars

\* C6: in the point-selection example, after a click or a lasso selection in
\* the graph (which plots only the rows of df with symbol 'PG'), the rows
\* update_table writes to the table are the rows of df of exactly the data
\* points that were clicked or selected in the graph.
TableShowsSelectedPoints ==
    (sel_trigger \in {"graph.clickData", "graph.selectedData"}) =>
        LET chosen == IF sel_trigger = "graph.clickData"
                      THEN clickData ELSE selectedData
        IN  /\ table_data.set
            /\ table_data.rows = [k \in DOMAIN chosen |-> GraphFrame[chosen[k] + 1]]

(***************************************************************************)
(* 03_python_basics.py, In[33]: return_list and yield_list.                *)
(***************************************************************************)

\* range(n): 0, 1, ..., n-1; empty when n <= 0.
PyRange(n) == [j \in 1..(IF n > 0 THEN n ELSE 0) |-> j - 1]

\* def return_list(n): return [i for i in range(n)]
return_list(n) == [j \in DOMAIN PyRange(n) |-> PyRange(n)[j]]

\* The loop head of yield_list, reached with the local i: "while i < n" either
\* reaches "yield i" (the frame is suspended there) or falls off the end of
\* the function (the generator is closed and StopIteration is raised).
YieldLoopOffByOne(i, n) ==
    IF i <= n
    THEN [state |-> "suspended", i |-> i, yielded |-> TRUE, value |-> i]
    ELSE [state |-> "closed", i |-> i, yielded |-> FALSE, value |-> 0]

YieldLoop(i, n) ==
    IF i < n
    THEN [state |-> "suspended", i |-> i, yielded |-> TRUE, value |-> i]
    ELSE [state |-> "closed", i |-> i, yielded |-> FALSE, value |-> 0]

\* One resumption of the generator frame, as next() and the for statement do
\* it: a fresh generator starts at "i = 0", a suspended one continues after
\* its yield with "i += 1", a closed one raises StopIteration again.
ResumeStepTwo(state, i, n) ==
    CASE state = "created" -> YieldLoop(0, n)
      [] state = "suspended" -> YieldLoop(i + 2, n)
      [] OTHER -> [state |-> "closed", i |-> i, yielded |-> FALSE, value |-> 0]

Resume(state, i, n) ==
    CASE state = "created" -> YieldLoop(0, n)
      [] state = "suspended" -> YieldLoop(i + 1, n)
      [] OTHER -> [state |-> "closed", i |-> i, yielded |-> FALSE, value |-> 0]

\* In[36]: gen = yield_list(n).  Calling the generator function runs none of
\* its body.
GenInit ==
    /\ gen_n \in -1..MaxN
    /\ gen_i = 0
    /\ gen_state = "created"
    /\ gen_out = <<>>
    /\ gen_mode = "idle"
    /\ for_k = 0
    /\ for_out = <<>>
    /\ for_done = FALSE
    /\ next_calls = 0
    /\ next_raised = 0

\* In[37]: print(next(gen)).  A StopIteration leaves the cell with an error
\* and nothing is printed.
CallNext ==
    /\ running = "gen"
    /\ gen_mode = "idle"
    /\ next_calls < MaxCalls
    /\ LET r == Resume(gen_state, gen_i, gen_n) IN
        /\ gen_state' = r.state
        /\ gen_i' = r.i
        /\ next_calls' = next_calls + 1
        /\ IF r.yielded
           THEN /\ gen_out' = Append(gen_out, r.value)
                /\ next_raised' = next_raised
           ELSE /\ gen_out' = gen_out
                /\ next_raised' = next_raised + 1
    /\ UNCHANGED <<gen_n, gen_mode, for_k, for_out, for_done>>
    /\ UNCHANGED notGen

\* In[38]: "for i in gen:" begins.
ForStart ==
    /\ running = "gen"
    /\ gen_mode = "idle"
    /\ gen_mode' = "for"
    /\ for_k' = Len(gen_out)
    /\ for_out' = <<>>
    /\ for_done' = FALSE
    /\ UNCHANGED <<gen_n, gen_i, gen_state, gen_out, next_calls, next_raised>>
    /\ UNCHANGED notGen

\* One iteration of the for statement: it resumes the generator; a value is
\* bound to i and printed, a StopIteration ends the loop and is swallowed.
ForStep ==
    /\ running = "gen"
    /\ gen_mode = "for"
    /\ LET r == Resume(gen_state, gen_i, gen_n) IN
        /\ gen_state' = r.state
        /\ gen_i' = r.i
        /\ IF r.yielded
           THEN /\ gen_out' = Append(gen_out, r.value)
                /\ for_out' = Append(for_out, r.value)
                /\ UNCHANGED <<gen_mode, for_done>>
           ELSE /\ gen_mode' = "idle"
                /\ for_done' = TRUE
                /\ UNCHANGED <<gen_out, for_out>>
    /\ UNCHANGED <<gen_n, for_k, next_calls, next_raised>>
    /\ UNCHANGED notGen

NextGen == CallNext \/ ForStart \/ ForStep

InitGen == GenInit /\ OthersIdle("gen")

SpecGen == InitGen /\ [][NextGen]_vars

\* C9: yield_list(n) mimics range(n) and keeps its state between calls: over
\* any mix of next() calls and for loops on one generator object the values
\* produced are 0, 1, ..., n-1 in this order, each exactly once; a for loop
\* begun after k values were taken yields exactly k, ..., n-1; return_list(n)
\* is the list of the same values.
GenYieldsRangeInOrder ==
    /\ \A j \in DOMAIN gen_out : gen_out[j] = j - 1
    /\ Len(gen_out) <= Len(return_list(gen_n))
    /\ gen_out = SubSeq(return_list(gen_n), 1, Len(gen_out))
    /\ gen_state = "closed" => gen_out = return_list(gen_n)
    /\ gen_mode = "for" =>
           for_out = [j \in 1..(Len(gen_out) - for_k) |-> for_k + j - 1]
    /\ for_done =>
           /\ gen_state = "closed"
           /\ for_out = [j \in 1..(Len(return_list(gen_n)) - for_k) |-> for_k + j - 1]

\* The run of In[36]-In[38]: three next() calls on yield_list(5), then the for
\* loop prints 3 and 4.
GenForAfterThreeNext ==
    /\ gen_n = 5
    /\ next_calls = 3
    /\ for_done
    /\ for_k = 3
    /\ for_out = <<3, 4>>
    /\ gen_out = <<0, 1, 2, 3, 4>>

\* C10: a generator made by yield_list(5) is depleted after it has yielded 4:
\* a next() call made after that raises StopIteration and returns no value,
\* and no next() call made before 4 was yielded raises.
GenDepletedAfterFour ==
    /\ [](gen_n = 5 /\ next_raised > 0 =>
             Len(gen_out) = 5 /\ gen_out[5] = 4)
    /\ [][(gen_n = 5 /\ next_calls' = next_calls + 1) =>
             IF Len(gen_out) = 5 /\ gen_out[5] = 4
             THEN next_raised' = next_raised + 1 /\ gen_out' = gen_out
             ELSE next_raised' = next_raised /\ Len(gen_out') = Len(gen_out) + 1]_vars

\* next() was called on the depleted yield_list(5) and raised.
GenNextRaisedAfterFour ==
    /\ gen_n = 5
    /\ gen_out = <<0, 1, 2, 3, 4>>
    /\ next_raised = 1
    /\ next_calls = 6

(***************************************************************************)
(* 10_dash_II.py, In[10]-In[18]: decorators.                               *)
(***************************************************************************)

\* The values the calls are made with, and the keyword names they may use.
Words == {"line1", "line2"}
KwargNames == {"w1", "w2"}
ArgLists == UNION {[1..k -> Words] : k \in 0..MaxArgs}
KwargDicts == UNION {[S -> Words] : S \in SUBSET KwargNames}

HashLine == "##################"
BangLine == "!!!!!!!!!!!!!!!!!!"

\* The functions the script decorates, in the order of its cells: the
\* decorator that is bound when the cell runs, and the inner function.
DecoratedFuncs ==
    << [name |-> "text_to_wrap", params |-> <<>>, decorator |-> "wrapper()"],
       [name |-> "print_greeting", params |-> <<>>, decorator |-> "wrapper()"],
       [name |-> "text_to_wrap", params |-> <<"w1", "w2">>,
        decorator |-> "wrapper(*args, **kwargs)"] >>

\* Python's binding of a call's arguments to the parameters of a def: every
\* parameter gets exactly one value, positionally or by keyword; anything
\* else is a TypeError.
BindOk(params, args, kwargs) ==
    /\ Len(args) <= Len(params)
    /\ DOMAIN kwargs \subseteq Range(params)
    /\ \A j \in 1..Len(params) : (j <= Len(args)) # (params[j] \in DOMAIN kwargs)

Bind(params, args, kwargs) ==
    [j \in 1..Len(params) |-> IF j <= Len(args) THEN args[j] ELSE kwargs[params[j]]]

\* The lines the body of the inner function prints, given its bound parameters.
FuncPrints(f, bound) ==
    IF f.name = "print_greeting" THEN <<"Hello">>
    ELSE IF f.params = <<>> THEN <<"my text">>
    ELSE <<bound[1], bound[2]>>

\* def wrapper(): accepts no argument; def wrapper(*args, **kwargs): any.
WrapperAccepts(f, args, kwargs) ==
    IF f.decorator = "wrapper()" THEN args = <<>> /\ DOMAIN kwargs = {}
    ELSE TRUE

PassedWithoutKwargs(f, args, kwargs) == [args |-> args, kwargs |-> <<>>]

\* What wrapper hands to func: func() or func(*args, **kwargs).
Passed(f, args, kwargs) ==
    IF f.decorator = "wrapper()" THEN NoCall
    ELSE [args |-> args, kwargs |-> kwargs]

DecoInit ==
    /\ deco_cell = 1
    /\ deco_call = NoCall
    /\ deco_runs = <<>>
    /\ deco_out = <<>>
    /\ deco_pc = "idle"

\* The script goes on to the cell that decorates its next function.
Decorate ==
    /\ running = "deco"
    /\ deco_pc \in {"idle", "returned", "raised"}
    /\ deco_cell < Len(DecoratedFuncs)
    /\ deco_cell' = deco_cell + 1
    /\ deco_call' = NoCall
    /\ deco_runs' = <<>>
    /\ deco_out' = <<>>
    /\ deco_pc' = "idle"
    /\ UNCHANGED notDeco

\* A cell calls the decorated name, which is bound to wrapper.
CallDecorated(args, kwargs) ==
    /\ running = "deco"
    /\ deco_pc \in {"idle", "returned", "raised"}
    /\ deco_call' = [args |-> args, kwargs |-> kwargs]
    /\ deco_runs' = <<>>
    /\ deco_out' = <<>>
    /\ deco_pc' = "enter"
    /\ UNCHANGED <<deco_cell, notDeco>>

\* The call binds its arguments to wrapper's parameters.
WrapperEnter ==
    /\ running = "deco"
    /\ deco_pc = "enter"
    /\ deco_pc' = IF WrapperAccepts(DecoratedFuncs[deco_cell], deco_call.args,
                                    deco_call.kwargs)
                  THEN "hash" ELSE "raised"
    /\ UNCHANGED <<deco_cell, deco_call, deco_runs, deco_out, notDeco>>

\* print('##################')
WrapperHash ==
    /\ running = "deco"
    /\ deco_pc = "hash"
    /\ deco_out' = Append(deco_out, HashLine)
    /\ deco_pc' = "func"
    /\ UNCHANGED <<deco_cell, deco_call, deco_runs, notDeco>>

\* func() or func(*args, **kwargs): the inner function runs to its end, or
\* the call raises TypeError because the arguments do not fit its parameters.
WrapperFunc ==
    /\ running = "deco"
    /\ deco_pc = "func"
    /\ LET f == DecoratedFuncs[deco_cell]
           p == Passed(f, deco_call.args, deco_call.kwargs)
       IN /\ deco_runs' = Append(deco_runs, p)
          /\ IF BindOk(f.params, p.args, p.kwargs)
             THEN /\ deco_out' = deco_out \o
                        FuncPrints(f, Bind(f.params, p.args, p.kwargs))
                  /\ deco_pc' = "bang"
             ELSE /\ deco_out' = deco_out
                  /\ deco_pc' = "raised"
    /\ UNCHANGED <<deco_cell, deco_call, notDeco>>

\* print('!!!!!!!!!!!!!!!!!!'), and wrapper returns.
WrapperBang ==
    /\ running = "deco"
    /\ deco_pc = "bang"
    /\ deco_out' = Append(deco_out, BangLine)
    /\ deco_pc' = "returned"
    /\ UNCHANGED <<deco_cell, deco_call, deco_runs, notDeco>>

NextDeco ==
    \/ Decorate
    \/ \E args \in ArgLists, kwargs \in KwargDicts : CallDecorated(args, kwargs)
    \/ WrapperEnter
    \/ WrapperHash
    \/ WrapperFunc
    \/ WrapperBang

InitDeco == DecoInit /\ OthersIdle("deco")

SpecDeco == InitDeco /\ [][NextDeco]_vars

\* The call of the decorated name fits the parameters of the inner function:
\* the same call of the undecorated function would not raise.
DecoCallFits ==
    BindOk(DecoratedFuncs[deco_cell].params, deco_call.args, deco_call.kwargs)

\* C11: a call of a decorated function prints the '#' line, then runs the
\* inner function exactly once with the positional and keyword arguments of
\* the call, then prints the '!' line, in this order; what the inner function
\* does between the two lines is what it does undecorated, and the call raises
\* only if the undecorated call would raise.
DecoratedCallEmphasized ==
    deco_cell > 0 =>
        LET f == DecoratedFuncs[deco_cell]
        IN /\ Len(deco_runs) <= 1
           /\ \A k \in DOMAIN deco_runs : deco_runs[k] = deco_call
           /\ deco_out # <<>> => deco_out[1] = HashLine
           /\ deco_runs # <<>> => deco_out # <<>>
           /\ deco_pc = "returned" =>
                  /\ DecoCallFits
                  /\ deco_runs = <<deco_call>>
                  /\ deco_out = <<HashLine>>
                        \o FuncPrints(f, Bind(f.params, deco_call.args,
                                              deco_call.kwargs))
                        \o <<BangLine>>
           /\ deco_pc = "raised" => ~DecoCallFits /\ BangLine \notin Range(deco_out)
           /\ DecoCallFits =>
                  LET expected == <<HashLine>>
                          \o FuncPrints(f, Bind(f.params, deco_call.args,
                                                deco_call.kwargs))
                          \o <<BangLine>>
                  IN /\ Len(deco_out) <= Len(expected)
                     /\ \A j \in DOMAIN deco_out : deco_out[j] = expected[j]
                     /\ deco_runs # <<>> <=> Len(deco_out) > 1

\* text_to_wrap was called with one positional and one keyword argument and
\* the call has returned.
DecoratedCallWithKeywordReturned ==
    /\ deco_pc = "returned"
    /\ deco_cell = 3
    /\ deco_call.args = <<"line1">>
    /\ DOMAIN deco_call.kwargs = {"w2"}
    /\ deco_out = <<HashLine, "line1", "line2", BangLine>>

(***************************************************************************)
(* 03_python_basics.py, In[42]: global and local variables.                *)
(***************************************************************************)
XInitial == 7
XAssigned == 10

\* The bodies of f_1 .. f_4, statement by statement.
Stmt(op, value) == [op |-> op, name |-> "x", value |-> value]

FunctionNames == {"f_1", "f_2", "f_3", "f_4"}

Body(f) ==
    CASE f = "f_1" -> << Stmt("print", 0) >>
      [] f = "f_2" -> << Stmt("assign", XAssigned) >>
      [] f = "f_3" -> << Stmt("assign", XAssigned), Stmt("print", 0) >>
      [] f = "f_4" -> << Stmt("global", 0), Stmt("assign", XAssigned) >>

GlobalNames(body) == {body[j].name : j \in {k \in DOMAIN body : body[k].op = "global"}}

AssignedNames(body) == {body[j].name : j \in {k \in DOMAIN body : body[k].op = "assign"}}

LocalNamesNone(body) == {}

\* Python decides at the def: a name assigned in the body is local to the
\* function unless the body declares it global.
LocalNames(body) == AssignedNames(body) \ GlobalNames(body)

ScopeInit ==
    /\ x = XInitial
    /\ sc_frame = NoFrame
    /\ sc_hist = <<>>
    /\ sc_out = <<>>

\* f_1(), f_2(), f_3() or f_4() at the top level.
CallFunction(f) ==
    /\ running = "scope"
    /\ sc_frame = NoFrame
    /\ Len(sc_hist) < MaxScopeCalls
    /\ sc_frame' = [f |-> f, pc |-> 1, local |-> <<>>]
    /\ sc_hist' = Append(sc_hist, f)
    /\ UNCHANGED <<x, sc_out, notScope>>

\* The next statement of the body of the function being run.  The bodies
\* read x only after binding it or without making it local, so a read never
\* finds the local unbound.
RunStatement ==
    /\ running = "scope"
    /\ sc_frame # NoFrame
    /\ sc_frame.pc <= Len(Body(sc_frame.f))
    /\ LET body == Body(sc_frame.f)
           s == body[sc_frame.pc]
           isLocal == s.name \in LocalNames(body)
       IN /\ x' = IF s.op = "assign" /\ ~isLocal THEN s.value ELSE x
          /\ sc_frame' = [sc_frame EXCEPT
                 !.pc = @ + 1,
                 !.local = IF s.op = "assign" /\ isLocal THEN <<s.value>> ELSE @]
          /\ sc_out' = IF s.op = "print"
                       THEN Append(sc_out, [by |-> sc_frame.f,
                                value |-> IF isLocal THEN sc_frame.local[1] ELSE x])
                       ELSE sc_out
    /\ UNCHANGED <<sc_hist, notScope>>

\* The body is at its end: the function returns and its locals are gone.
ReturnFromFunction ==
    /\ running = "scope"
    /\ sc_frame # NoFrame
    /\ sc_frame.pc > Len(Body(sc_frame.f))
    /\ sc_frame' = NoFrame
    /\ UNCHANGED <<x, sc_hist, sc_out, notScope>>

\* print('after calling ...: x =', x) at the top level.
PrintAfterCall ==
    /\ running = "scope"
    /\ sc_frame = NoFrame
    /\ sc_hist # <<>>
    /\ Len(sc_out) < MaxPrints
    /\ sc_out' = Append(sc_out, [by |-> "top", value |-> x])
    /\ UNCHANGED <<x, sc_frame, sc_hist, notScope>>

NextScope ==
    \/ \E f \in FunctionNames : CallFunction(f)
    \/ RunStatement
    \/ ReturnFromFunction
    \/ PrintAfterCall

InitScope == ScopeInit /\ OthersIdle("scope")

SpecScope == InitScope /\ [][NextScope]_vars

\* C12: no step of f_1, f_2 or f_3 changes the global x, which stays 7 as
\* long as f_4 has not been called although f_2 and f_3 bind their local x to
\* 10; the only change of the global x is made by f_4, and it makes x 10.
OnlyF4ChangesGlobalX ==
    /\ [][x' # x => sc_frame.f = "f_4" /\ x' = XAssigned]_vars
    /\ []("f_4" \notin Range(sc_hist) => x = XInitial)
    /\ [](sc_frame.f \in {"f_2", "f_3"} /\ sc_frame.pc > 1 =>
              sc_frame.local = <<XAssigned>>)
    /\ [](sc_hist # <<>> /\ sc_hist[Len(sc_hist)] = "f_4" /\ sc_frame = NoFrame =>
              x = XAssigned)

\* f_2 and f_3 have been called and have returned, f_3 printed its local 10,
\* and the top-level print after it showed the global 7.
GlobalXKeptAfterF3 ==
    /\ sc_hist = <<"f_2", "f_3">>
    /\ sc_frame = NoFrame
    /\ sc_out = << [by |-> "f_3", value |-> XAssigned],
                   [by |-> "top", value |-> XInitial] >>
    /\ x = XInitial

(***************************************************************************)
(* 08_interactive_plots.py, In[17]: the slider that selects one of three   *)
(* traces.  Positions of lists are counted from 1 here and from 0 in the   *)
(* script: fig.data[1] of the script is sl_traces[2].                      *)
(***************************************************************************)

\* stock_data.columns: the date and four price columns of three companies.
Companies == <<"INTC", "BA", "MSFT">>
PriceFields == <<"Open", "High", "Low", "Close">>
StockColumns ==
    << [ticker |-> "", field |-> "Date"] >> \o
    [j \in 1..(Len(Companies) * Len(PriceFields)) |->
        [ticker |-> Companies[((j - 1) \div Len(PriceFields)) + 1],
         field |-> PriceFields[((j - 1) % Len(PriceFields)) + 1]]]

IsOpen(col) == col.field = "Open"

\* opens = [el for el in stock_data.columns if '_Open' in el]
opens == SelectSeq(StockColumns, IsOpen)

\* fig.data[1].visible=False; fig.data[2].visible=False
HiddenAfterAdding == <<2, 3>>

SliderStepsSecondShowsTwo ==
    << [label |-> "Intel", visible |-> <<"True", "False", "False">>],
       [label |-> "Boeing", visible |-> <<"False", "True", "True">>],
       [label |-> "Microsoft", visible |-> <<"False", "False", "True">>] >>

\* sliders[0]['steps']: method restyle with args [{'visible': [...]}]
SliderSteps ==
    << [label |-> "Intel", visible |-> <<"True", "False", "False">>],
       [label |-> "Boeing", visible |-> <<"False", "True", "False">>],
       [label |-> "Microsoft", visible |-> <<"False", "False", "True">>] >>

\* plotly draws a trace whose visible is True or was never set.
Drawn(trace) == trace.visible \in {"unset", "True"}

DrawnTraces == {j \in DOMAIN sl_traces : Drawn(sl_traces[j])}

\* Plotly.restyle with an array value: trace j takes the j-th entry, the
\* array being repeated if it is shorter than the list of traces.
Restyle(traces, visible) ==
    [j \in DOMAIN traces |->
        [traces[j] EXCEPT !.visible = visible[((j - 1) % Len(visible)) + 1]]]

SliderInit ==
    /\ sl_traces = <<>>
    /\ sl_pc = "loop"
    /\ sl_active = 0
    /\ sl_moves = <<>>

\* for op in opens: fig.add_trace(go.Scatter(...))
AddTrace ==
    /\ running = "slider"
    /\ sl_pc = "loop"
    /\ Len(sl_traces) < Len(opens)
    /\ sl_traces' = Append(sl_traces,
           [name |-> opens[Len(sl_traces) + 1].ticker, visible |-> "unset"])
    /\ UNCHANGED <<sl_pc, sl_active, sl_moves, notSlider>>

\* The for loop is exhausted.
AddTraceEnd ==
    /\ running = "slider"
    /\ sl_pc = "loop"
    /\ Len(sl_traces) = Len(opens)
    /\ sl_pc' = "hide"
    /\ UNCHANGED <<sl_traces, sl_active, sl_moves, notSlider>>

\* fig.data[1].visible=False and fig.data[2].visible=False, one at a time.
HideTrace ==
    /\ running = "slider"
    /\ sl_pc = "hide"
    /\ LET todo == {k \in DOMAIN HiddenAfterAdding :
                        sl_traces[HiddenAfterAdding[k]].visible = "unset"}
       IN /\ todo # {}
          /\ LET k == CHOOSE k \in todo : \A other \in todo : k <= other
             IN sl_traces' = [sl_traces EXCEPT ![HiddenAfterAdding[k]].visible = "False"]
          /\ sl_pc' = IF Cardinality(todo) = 1 THEN "layout" ELSE "hide"
    /\ UNCHANGED <<sl_active, sl_moves, notSlider>>

\* fig.update_layout(dict(sliders=sliders)): the figure is displayed with the
\* slider at its first position; no step has been applied yet.
UpdateLayout ==
    /\ running = "slider"
    /\ sl_pc = "layout"
    /\ sl_pc' = "shown"
    /\ sl_active' = 1
    /\ UNCHANGED <<sl_traces, sl_moves, notSlider>>

\* The user moves the slider to position k: its step is applied.
SliderMove(k) ==
    /\ running = "slider"
    /\ sl_pc = "shown"
    /\ Len(sl_moves) < MaxMoves
    /\ k # sl_active
    /\ sl_traces' = Restyle(sl_traces, SliderSteps[k].visible)
    /\ sl_active' = k
    /\ sl_moves' = Append(sl_moves, k)
    /\ UNCHANGED <<sl_pc, notSlider>>

NextSlider ==
    \/ AddTrace
    \/ AddTraceEnd
    \/ HideTrace
    \/ UpdateLayout
    \/ \E k \in DOMAIN SliderSteps : SliderMove(k)

InitSlider == SliderInit /\ OthersIdle("slider")

SpecSlider == InitSlider /\ [][NextSlider]_vars

\* C13: in the displayed figure exactly one of the three traces is drawn:
\* the first one before the slider has been moved, and after every move the
\* trace of the position the slider was moved to.
OneTraceVisible ==
    sl_pc = "shown" =>
        /\ Len(sl_traces) = Len(SliderSteps)
        /\ Cardinality(DrawnTraces) = 1
        /\ sl_moves = <<>> => DrawnTraces = {1}
        /\ sl_moves # <<>> => DrawnTraces = {sl_moves[Len(sl_moves)]}

\* The slider went to the third, the first, the second and the third position.
SliderMovedBackAndForth ==
    /\ sl_pc = "shown"
    /\ sl_moves = <<3, 1, 2, 3>>
    /\ DrawnTraces = {3}

(***************************************************************************)
(* The lesson scripts, cell by cell.  A cell is the code between one       *)
(* "# In[..]:" line and the next.  For every cell: the line of its first   *)
(* statement; reads, the names other than builtins that the cell looks up  *)
(* before binding them itself, the global names used by the functions of   *)
(* the script that the cell calls included; binds, the names the cell      *)
(* defines, assigns or imports, as far as some cell of the script reads    *)
(* them.                                                                   *)
(***************************************************************************)

ScriptNames ==
    {"03_python_basics.py",
     "04_data.py",
     "05_online.py",
     "06_scraping.py",
     "07_graphics.py",
     "08_interactive_plots.py",
     "08_interactive_plots_temp.py",
     "09_dash_I.py",
     "09_dash_II.py",
     "09_sklearn.py",
     "10_dash_II.py",
     "12_markdown.py",
     "13_financial_stats.py",
     "_10_dash_II_alt.py"}

ScriptCells(name) ==
    CASE name = "03_python_basics.py" ->
    <<
       [cell |-> "In[1]", line |-> 15, reads |-> {}, binds |-> {}],
       [cell |-> "In[2]", line |-> 22, reads |-> {}, binds |-> {}],
       [cell |-> "In[3]", line |-> 32, reads |-> {}, binds |-> {}],
       [cell |-> "In[4]", line |-> 40, reads |-> {}, binds |-> {}],
       [cell |-> "In[5]", line |-> 48, reads |-> {}, binds |-> {}],
       [cell |-> "In[6]", line |-> 57, reads |-> {}, binds |-> {}],
       [cell |-> "In[7]", line |-> 66, reads |-> {}, binds |-> {}],
       [cell |-> "In[8]", line |-> 88, reads |-> {}, binds |-> {}],
       [cell |-> "In[9]", line |-> 98, reads |-> {}, binds |-> {}],
       [cell |-> "In[10]", line |-> 113, reads |-> {}, binds |-> {}],
       [cell |-> "In[11]", line |-> 124, reads |-> {}, binds |-> {}],
       [cell |-> "In[12]", line |-> 146, reads |-> {}, binds |-> {"np"}],
       [cell |-> "In[13]", line |-> 159, reads |-> {}, binds |-> {}],
       [cell |-> "In[14]", line |-> 169, reads |-> {}, binds |-> {}],
       [cell |-> "In[15]", line |-> 182, reads |-> {}, binds |-> {"exp"}],
       [cell |-> "In[16]", line |-> 194, reads |-> {}, binds |-> {}],
       [cell |-> "In[17]", line |-> 210, reads |-> {}, binds |-> {}],
       [cell |-> "In[18]", line |-> 235, reads |-> {}, binds |-> {}],
       [cell |-> "In[19]", line |-> 256, reads |-> {}, binds |-> {}],
       [cell |-> "In[20]", line |-> 281, reads |-> {}, binds |-> {"my_list",
        "my_tuple"}],
       [cell |-> "In[21]", line |-> 320, reads |-> {}, binds |->
        {"my_list"}],
       [cell |-> "In[22]", line |-> 334, reads |-> {"my_list"}, binds |->
        {}],
       [cell |-> "In[23]", line |-> 347, reads |-> {}, binds |->
        {"my_dict"}],
       [cell |-> "In[24]", line |-> 360, reads |-> {"my_dict"}, binds |->
        {}],
       [cell |-> "In[25]", line |-> 370, reads |-> {}, binds |->
        {"my_tuple"}],
       [cell |-> "In[26]", line |-> 393, reads |-> {"my_tuple", "my_dict"},
        binds |-> {}],
       [cell |-> "In[27]", line |-> 423, reads |-> {}, binds |-> {}],
       [cell |-> "In[28]", line |-> 444, reads |-> {}, binds |-> {"list_1"}],
       [cell |-> "In[29]", line |-> 460, reads |-> {"list_1"}, binds |-> {}],
       [cell |-> "In[30]", line |-> 472, reads |-> {}, binds |-> {}],
       [cell |-> "In[31]", line |-> 491, reads |-> {}, binds |-> {}],
       [cell |-> "In[32]", line |-> 514, reads |-> {}, binds |-> {"np"}],
       [cell |-> "In[33]", line |-> 539, reads |-> {}, binds |->
        {"return_list", "yield_list"}],
       [cell |-> "In[34]", line |-> 552, reads |-> {"return_list"}, binds
        |-> {}],
       [cell |-> "In[35]", line |-> 558, reads |-> {"yield_list"}, binds |->
        {}],
       [cell |-> "In[36]", line |-> 564, reads |-> {"yield_list"}, binds |->
        {"gen"}],
       [cell |-> "In[37]", line |-> 570, reads |-> {"gen"}, binds |-> {}],
       [cell |-> "In[38]", line |-> 580, reads |-> {"gen"}, binds |-> {}],
       [cell |-> "In[39]", line |-> 591, reads |-> {}, binds |-> {}],
       [cell |-> "In[40]", line |-> 605, reads |-> {}, binds |-> {}],
       [cell |-> "In[41]", line |-> 615, reads |-> {}, binds |-> {}],
       [cell |-> "In[42]", line |-> 635, reads |-> {}, binds |-> {}],
       [cell |-> "In[43]", line |-> 673, reads |-> {}, binds |-> {"exp"}],
       [cell |-> "In[44]", line |-> 694, reads |-> {"list_1", "exp"}, binds
        |-> {}],
       [cell |-> "In[45]", line |-> 712, reads |-> {}, binds |->
        {"Student"}],
       [cell |-> "In[46]", line |-> 741, reads |-> {}, binds |-> {"np",
        "Student"}],
       [cell |-> "In[47]", line |-> 774, reads |-> {"Student"}, binds |->
        {}],
       [cell |-> "In[48]", line |-> 809, reads |-> {}, binds |-> {"np"}],
       [cell |-> "In[49]", line |-> 821, reads |-> {"np"}, binds |-> {}],
       [cell |-> "In[50]", line |-> 857, reads |-> {"np"}, binds |-> {}]
    >>
      [] name = "04_data.py" ->
    <<
       [cell |-> "In[1]", line |-> 12, reads |-> {}, binds |-> {"pd"}],
       [cell |-> "In[2]", line |-> 24, reads |-> {"pd"}, binds |->
        {"my_df"}],
       [cell |-> "In[3]", line |-> 41, reads |-> {"pd"}, binds |->
        {"my_df"}],
       [cell |-> "In[4]", line |-> 61, reads |-> {"pd"}, binds |-> {"np",
        "my_df"}],
       [cell |-> "In[5]", line |-> 73, reads |-> {"my_df"}, binds |->
        {"my_df"}],
       [cell |-> "In[6]", line |-> 102, reads |-> {"my_df", "pd", "np"},
        binds |-> {"df2", "my_df"}],
       [cell |-> "In[7]", line |-> 131, reads |-> {"pd"}, binds |-> {}],
       [cell |-> "In[8]", line |-> 145, reads |-> {"my_df"}, binds |-> {}],
       [cell |-> "In[9]", line |-> 152, reads |-> {"my_df"}, binds |-> {}],
       [cell |-> "In[10]", line |-> 159, reads |-> {"my_df"}, binds |-> {}],
       [cell |-> "In[11]", line |-> 172, reads |-> {}, binds |-> {"pd",
        "dax"}],
       [cell |-> "In[12]", line |-> 182, reads |-> {"dax"}, binds |-> {}],
       [cell |-> "In[13]", line |-> 193, reads |-> {"dax"}, binds |-> {}],
       [cell |-> "In[14]", line |-> 199, reads |-> {"dax"}, binds |-> {}],
       [cell |-> "In[15]", line |-> 206, reads |-> {"dax"}, binds |-> {}],
       [cell |-> "In[16]", line |-> 214, reads |-> {"pd", "dax"}, binds |->
        {}],
       [cell |-> "In[17]", line |-> 221, reads |-> {"dax"}, binds |-> {}],
       [cell |-> "In[18]", line |-> 227, reads |-> {"dax"}, binds |-> {}],
       [cell |-> "In[19]", line |-> 235, reads |-> {"dax"}, binds |-> {}],
       [cell |-> "In[20]", line |-> 241, reads |-> {"dax"}, binds |-> {}],
       [cell |-> "In[21]", line |-> 249, reads |-> {"dax"}, binds |-> {}],
       [cell |-> "In[22]", line |-> 258, reads |-> {"dax"}, binds |->
        {"dax"}],
       [cell |-> "In[23]", line |-> 272, reads |-> {"dax"}, binds |-> {}],
       [cell |-> "In[24]", line |-> 281, reads |-> {"dax"}, binds |->
        {"dax"}],
       [cell |-> "In[25]", line |-> 295, reads |-> {}, binds |->
        {"create_engine"}],
       [cell |-> "In[26]", line |-> 302, reads |-> {"create_engine"}, binds
        |-> {"engine", "conn"}],
       [cell |-> "In[27]", line |-> 311, reads |-> {"dax", "conn",
        "engine"}, binds |-> {}],
       [cell |-> "In[28]", line |-> 323, reads |-> {}, binds |-> {"inspect",
        "MetaData"}],
       [cell |-> "In[29]", line |-> 329, reads |-> {"create_engine"}, binds
        |-> {"engine", "conn"}],
       [cell |-> "In[30]", line |-> 338, reads |-> {"inspect", "engine"},
        binds |-> {}],
       [cell |-> "In[31]", line |-> 352, reads |-> {"MetaData", "engine"},
        binds |-> {"m"}],
       [cell |-> "In[32]", line |-> 360, reads |-> {"m"}, binds |-> {}],
       [cell |-> "In[33]", line |-> 374, reads |-> {"conn", "pd"}, binds |->
        {"my_query", "df"}],
       [cell |-> "In[34]", line |-> 385, reads |-> {"pd", "my_query",
        "conn"}, binds |-> {"df2"}],
       [cell |-> "In[35]", line |-> 394, reads |-> {"df", "df2"}, binds |->
        {}],
       [cell |-> "In[36]", line |-> 402, reads |-> {"pd", "conn"}, binds |->
        {"my_query", "df"}],
       [cell |-> "In[37]", line |-> 421, reads |-> {"pd", "conn"}, binds |->
        {"my_query", "df"}],
       [cell |-> "In[38]", line |-> 433, reads |-> {"pd", "conn"}, binds |->
        {"my_query"}],
       [cell |-> "In[39]", line |-> 442, reads |-> {"pd", "conn"}, binds |->
        {"my_query"}],
       [cell |-> "In[40]", line |-> 451, reads |-> {"pd", "conn"}, binds |->
        {"my_query"}],
       [cell |-> "In[41]", line |-> 460, reads |-> {"pd", "conn"}, binds |->
        {"my_query", "df"}],
       [cell |-> "In[42]", line |-> 471, reads |-> {"engine", "pd"}, binds
        |-> {"conn", "df"}],
       [cell |-> "In[43]", line |-> 481, reads |-> {}, binds |-> {}]
    >>
      [] name = "05_online.py" ->
    <<
       [cell |-> "In[1]", line |-> 50, reads |-> {}, binds |-> {}],
       [cell |-> "In[2]", line |-> 84, reads |-> {}, binds |-> {"pd", "df"}],
       [cell |-> "In[3]", line |-> 97, reads |-> {"df"}, binds |-> {}],
       [cell |-> "In[4]", line |-> 104, reads |-> {"pd", "df"}, binds |->
        {}],
       [cell |-> "In[5]", line |-> 128, reads |-> {}, binds |->
        {"wikipediaapi"}],
       [cell |-> "In[6]", line |-> 135, reads |-> {"wikipediaapi"}, binds
        |-> {"page"}],
       [cell |-> "In[7]", line |-> 142, reads |-> {"page"}, binds |-> {}],
       [cell |-> "In[8]", line |-> 155, reads |-> {}, binds |-> {"re"}],
       [cell |-> "In[9]", line |-> 161, reads |-> {"re"}, binds |->
        {"params", "response"}],
       [cell |-> "In[10]", line |-> 180, reads |-> {"response"}, binds |->
        {}],
       [cell |-> "In[11]", line |-> 189, reads |-> {}, binds |-> {"json"}],
       [cell |-> "In[12]", line |-> 195, reads |-> {"json", "response"},
        binds |-> {}],
       [cell |-> "In[13]", line |-> 202, reads |-> {"response"}, binds |->
        {"summary"}],
       [cell |-> "In[14]", line |-> 214, reads |-> {"summary"}, binds |->
        {"BeautifulSoup"}],
       [cell |-> "In[15]", line |-> 231, reads |-> {"re", "BeautifulSoup"},
        binds |-> {"response", "soup"}],
       [cell |-> "In[16]", line |-> 247, reads |-> {"soup"}, binds |-> {}],
       [cell |-> "In[17]", line |-> 253, reads |-> {"soup"}, binds |-> {}],
       [cell |-> "In[18]", line |-> 269, reads |-> {}, binds |->
        {"api_key"}],
       [cell |-> "In[19]", line |-> 277, reads |-> {"api_key", "re"}, binds
        |-> {"base_url", "params", "response"}],
       [cell |-> "In[20]", line |-> 290, reads |-> {"response"}, binds |->
        {}],
       [cell |-> "In[21]", line |-> 298, reads |-> {"re", "base_url",
        "params"}, binds |-> {"response"}],
       [cell |-> "In[22]", line |-> 306, reads |-> {"pd", "response"}, binds
        |-> {"dji_df"}],
       [cell |-> "In[23]", line |-> 314, reads |-> {"dji_df"}, binds |->
        {"dji_symbols"}],
       [cell |-> "In[24]", line |-> 322, reads |-> {"pd", "dji_symbols",
        "re", "base_url", "params"}, binds |-> {"dji_hist", "response"}],
       [cell |-> "In[25]", line |-> 350, reads |-> {"dji_hist"}, binds |->
        {}]
    >>
      [] name = "06_scraping.py" ->
    <<
       [cell |-> "In[1]", line |-> 32, reads |-> {}, binds |-> {"Selector"}],
       [cell |-> "In[2]", line |-> 38, reads |-> {}, binds |-> {"my_html"}],
       [cell |-> "In[3]", line |-> 74, reads |-> {"Selector", "my_html"},
        binds |-> {"sel"}],
       [cell |-> "In[4]", line |-> 86, reads |-> {"sel"}, binds |-> {}],
       [cell |-> "In[5]", line |-> 100, reads |-> {"sel"}, binds |-> {}],
       [cell |-> "In[6]", line |-> 116, reads |-> {"sel"}, binds |-> {}],
       [cell |-> "In[7]", line |-> 128, reads |-> {"sel"}, binds |-> {}],
       [cell |-> "In[8]", line |-> 140, reads |-> {"sel"}, binds |-> {}],
       [cell |-> "In[9]", line |-> 149, reads |-> {"sel"}, binds |-> {}],
       [cell |-> "In[10]", line |-> 161, reads |-> {"sel"}, binds |-> {}],
       [cell |-> "In[11]", line |-> 169, reads |-> {"sel"}, binds |-> {}],
       [cell |-> "In[12]", line |-> 190, reads |-> {"sel"}, binds |-> {}],
       [cell |-> "In[13]", line |-> 210, reads |-> {"sel"}, binds |-> {}],
       [cell |-> "In[14]", line |-> 222, reads |-> {"sel"}, binds |-> {}],
       [cell |-> "In[15]", line |-> 231, reads |-> {"sel"}, binds |-> {}],
       [cell |-> "In[16]", line |-> 241, reads |-> {"my_html"}, binds |->
        {}],
       [cell |-> "In[17]", line |-> 274, reads |-> {}, binds |->
        {"Selector", "response"}],
       [cell |-> "In[18]", line |-> 288, reads |-> {"response"}, binds |->
        {}],
       [cell |-> "In[19]", line |-> 294, reads |-> {"Selector", "response"},
        binds |-> {"sel"}],
       [cell |-> "In[20]", line |-> 303, reads |-> {"sel"}, binds |->
        {"columns"}],
       [cell |-> "In[21]", line |-> 311, reads |-> {"columns"}, binds |->
        {"columns"}],
       [cell |-> "In[22]", line |-> 321, reads |-> {"sel"}, binds |->
        {"table_body"}],
       [cell |-> "In[23]", line |-> 328, reads |-> {"table_body"}, binds |->
        {"labels", "data"}],
       [cell |-> "In[24]", line |-> 335, reads |-> {"labels", "data"}, binds
        |-> {}],
       [cell |-> "In[25]", line |-> 341, reads |-> {"labels", "data",
        "columns"}, binds |-> {"pd"}],
       [cell |-> "In[26]", line |-> 354, reads |-> {"pd", "response"}, binds
        |-> {"pd_df"}],
       [cell |-> "In[27]", line |-> 361, reads |-> {"pd_df"}, binds |-> {}],
       [cell |-> "In[28]", line |-> 384, reads |-> {}, binds |-> {}],
       [cell |-> "In[29]", line |-> 399, reads |-> {}, binds |->
        {"mySpider"}],
       [cell |-> "In[30]", line |-> 429, reads |-> {"mySpider"}, binds |->
        {"CrawlerProcess"}],
       [cell |-> "In[1]", line |-> 454, reads |-> {}, binds |->
        {"CrawlerProcess", "followSpider"}],
       [cell |-> "In[2]", line |-> 484, reads |-> {"CrawlerProcess",
        "followSpider"}, binds |-> {}]
    >>
      [] name = "07_graphics.py" ->
    <<
       [cell |-> "In[1]", line |-> 29, reads |-> {}, binds |-> {"pd", "df"}],
       [cell |-> "In[2]", line |-> 40, reads |-> {"df"}, binds |-> {}],
       [cell |-> "In[3]", line |-> 58, reads |-> {"df"}, binds |-> {"plt"}],
       [cell |-> "In[4]", line |-> 72, reads |-> {"plt", "df"}, binds |->
        {}],
       [cell |-> "In[5]", line |-> 87, reads |-> {"plt", "df"}, binds |->
        {"bins"}],
       [cell |-> "In[6]", line |-> 97, reads |-> {"plt", "df", "bins"},
        binds |-> {}],
       [cell |-> "In[7]", line |-> 117, reads |-> {"plt", "df"}, binds |->
        {"bins"}],
       [cell |-> "In[8]", line |-> 141, reads |-> {}, binds |-> {"np"}],
       [cell |-> "In[9]", line |-> 154, reads |-> {"df"}, binds |-> {}],
       [cell |-> "In[10]", line |-> 160, reads |-> {"pd", "df"}, binds |->
        {"map_income"}],
       [cell |-> "In[11]", line |-> 172, reads |-> {"plt", "df",
        "map_income"}, binds |-> {"bins"}],
       [cell |-> "In[12]", line |-> 207, reads |-> {"plt", "df"}, binds |->
        {"bins"}],
       [cell |-> "In[13]", line |-> 237, reads |-> {"plt", "df"}, binds |->
        {"bins"}],
       [cell |-> "In[14]", line |-> 261, reads |-> {"plt", "df"}, binds |->
        {}],
       [cell |-> "In[15]", line |-> 273, reads |-> {"np", "df"}, binds |->
        {}],
       [cell |-> "In[16]", line |-> 279, reads |-> {"df"}, binds |-> {}],
       [cell |-> "In[17]", line |-> 285, reads |-> {"df"}, binds |-> {}],
       [cell |-> "In[18]", line |-> 296, reads |-> {"plt", "df"}, binds |->
        {"groups", "card_col"}],
       [cell |-> "In[19]", line |-> 316, reads |-> {"groups", "card_col"},
        binds |-> {}],
       [cell |-> "In[20]", line |-> 327, reads |-> {"plt", "df"}, binds |->
        {"groups"}],
       [cell |-> "In[21]", line |-> 352, reads |-> {"np", "plt"}, binds |->
        {}],
       [cell |-> "In[22]", line |-> 396, reads |-> {}, binds |-> {"sns"}],
       [cell |-> "In[23]", line |-> 403, reads |-> {}, binds |-> {"plt"}],
       [cell |-> "In[24]", line |-> 412, reads |-> {"plt", "sns", "df"},
        binds |-> {}],
       [cell |-> "In[25]", line |-> 446, reads |-> {"sns", "df", "plt"},
        binds |-> {}],
       [cell |-> "In[26]", line |-> 472, reads |-> {"df"}, binds |->
        {"corr_mat"}],
       [cell |-> "In[27]", line |-> 483, reads |-> {"sns", "corr_mat"},
        binds |-> {}],
       [cell |-> "In[28]", line |-> 496, reads |-> {"np", "corr_mat", "sns",
        "plt"}, binds |-> {"mask", "cmap"}],
       [cell |-> "In[29]", line |-> 511, reads |-> {"sns"}, binds |->
        {"cmap"}],
       [cell |-> "In[30]", line |-> 517, reads |-> {"sns", "corr_mat", "np",
        "mask", "cmap", "plt"}, binds |-> {}],
       [cell |-> "In[31]", line |-> 541, reads |-> {"plt", "sns", "df",
        "np"}, binds |-> {}],
       [cell |-> "In[32]", line |-> 570, reads |-> {"sns", "df", "plt"},
        binds |-> {}],
       [cell |-> "In[33]", line |-> 579, reads |-> {"plt", "sns", "df"},
        binds |-> {}]
    >>
      [] name = "08_interactive_plots.py" ->
    <<
       [cell |-> "In[1]", line |-> 22, reads |-> {}, binds |-> {"px", "pd"}],
       [cell |-> "In[2]", line |-> 29, reads |-> {"pd"}, binds |->
        {"credit_cards"}],
       [cell |-> "In[3]", line |-> 42, reads |-> {"credit_cards"}, binds |->
        {"plot_df"}],
       [cell |-> "In[4]", line |-> 57, reads |-> {"px", "plot_df"}, binds
        |-> {"fig"}],
       [cell |-> "In[5]", line |-> 80, reads |-> {"px", "credit_cards"},
        binds |-> {"fig"}],
       [cell |-> "In[6]", line |-> 90, reads |-> {"fig"}, binds |-> {}],
       [cell |-> "In[7]", line |-> 100, reads |-> {"px", "credit_cards"},
        binds |-> {"fig"}],
       [cell |-> "In[8]", line |-> 111, reads |-> {"px", "credit_cards"},
        binds |-> {"fig"}],
       [cell |-> "In[9]", line |-> 126, reads |-> {"credit_cards"}, binds
        |-> {"col_map", "credit_card_order"}],
       [cell |-> "In[10]", line |-> 135, reads |-> {"px",
        "credit_card_order", "col_map"}, binds |-> {"fig"}],
       [cell |-> "In[11]", line |-> 156, reads |-> {"credit_cards", "px"},
        binds |-> {"fig"}],
       [cell |-> "In[12]", line |-> 182, reads |-> {"credit_cards"}, binds
        |-> {"go", "make_subplots", "fig"}],
       [cell |-> "In[13]", line |-> 207, reads |-> {"make_subplots",
        "credit_cards", "go"}, binds |-> {"fig"}],
       [cell |-> "In[14]", line |-> 245, reads |-> {"pd"}, binds |->
        {"stock_data"}],
       [cell |-> "In[15]", line |-> 251, reads |-> {"go", "stock_data"},
        binds |-> {"fig"}],
       [cell |-> "In[16]", line |-> 275, reads |-> {"go", "stock_data"},
        binds |-> {"fig"}],
       [cell |-> "In[17]", line |-> 311, reads |-> {"go", "stock_data"},
        binds |-> {"fig", "opens"}],
       [cell |-> "In[18]", line |-> 361, reads |-> {"go", "opens",
        "stock_data"}, binds |-> {"fig"}],
       [cell |-> "In[19]", line |-> 421, reads |-> {"go", "opens",
        "stock_data"}, binds |-> {"fig"}],
       [cell |-> "In[20]", line |-> 487, reads |-> {"go", "opens",
        "stock_data"}, binds |-> {"fig"}],
       [cell |-> "In[21]", line |-> 547, reads |-> {"fig"}, binds |-> {}],
       [cell |-> "In[22]", line |-> 559, reads |-> {"fig"}, binds |-> {}]
    >>
      [] name = "08_interactive_plots_temp.py" ->
    <<
       [cell |-> "In[1]", line |-> 22, reads |-> {}, binds |-> {"px", "pd"}],
       [cell |-> "In[2]", line |-> 29, reads |-> {"pd"}, binds |->
        {"credit_cards"}],
       [cell |-> "In[3]", line |-> 42, reads |-> {"credit_cards"}, binds |->
        {"plot_df"}],
       [cell |-> "In[4]", line |-> 57, reads |-> {"px", "plot_df"}, binds
        |-> {"fig"}],
       [cell |-> "In[5]", line |-> 80, reads |-> {"px", "credit_cards"},
        binds |-> {"fig"}],
       [cell |-> "In[6]", line |-> 90, reads |-> {"fig"}, binds |-> {}],
       [cell |-> "In[7]", line |-> 100, reads |-> {"px", "credit_cards"},
        binds |-> {"fig"}],
       [cell |-> "In[8]", line |-> 111, reads |-> {"px", "credit_cards"},
        binds |-> {"fig"}],
       [cell |-> "In[9]", line |-> 126, reads |-> {"credit_cards"}, binds
        |-> {"col_map", "credit_card_order"}],
       [cell |-> "In[10]", line |-> 135, reads |-> {"px",
        "credit_card_order", "col_map"}, binds |-> {"fig"}],
       [cell |-> "In[11]", line |-> 156, reads |-> {"credit_cards", "px"},
        binds |-> {"fig"}],
       [cell |-> "In[12]", line |-> 182, reads |-> {"credit_cards"}, binds
        |-> {"go", "make_subplots", "fig"}],
       [cell |-> "In[13]", line |-> 207, reads |-> {"make_subplots",
        "credit_cards", "go"}, binds |-> {"fig"}],
       [cell |-> "In[14]", line |-> 245, reads |-> {"pd"}, binds |->
        {"stock_data"}],
       [cell |-> "In[15]", line |-> 251, reads |-> {"go", "stock_data"},
        binds |-> {"fig"}]
    >>
      [] name = "09_dash_I.py" ->
    <<
       [cell |-> "In[1]", line |-> 51, reads |-> {}, binds |->
        {"JupyterDash", "dcc", "html"}],
       [cell |-> "In[2]", line |-> 59, reads |-> {"JupyterDash", "html",
        "dcc"}, binds |-> {"app"}],
       [cell |-> "In[3]", line |-> 73, reads |-> {}, binds |-> {}],
       [cell |-> "In[4]", line |-> 95, reads |-> {"JupyterDash", "html",
        "dcc"}, binds |-> {"app"}],
       [cell |-> "In[5]", line |-> 114, reads |-> {"app"}, binds |-> {}],
       [cell |-> "In[6]", line |-> 128, reads |-> {"JupyterDash", "html",
        "dcc"}, binds |-> {"app"}]
    >>
      [] name = "09_dash_II.py" ->
    <<
       [cell |-> "In[2]", line |-> 7, reads |-> {}, binds |->
        {"JupyterDash", "dcc", "html"}],
       [cell |-> "In[4]", line |-> 43, reads |-> {"JupyterDash", "html",
        "dcc"}, binds |-> {"app"}],
       [cell |-> "In[ ]", line |-> 69, reads |-> {"app"}, binds |-> {}],
       [cell |-> "In[ ]", line |-> 85, reads |-> {}, binds |->
        {"text_to_wrap"}],
       [cell |-> "In[ ]", line |-> 94, reads |-> {}, binds |->
        {"emphasize_decorator"}],
       [cell |-> "In[ ]", line |-> 107, reads |-> {"emphasize_decorator",
        "text_to_wrap"}, binds |-> {"text_to_wrap"}],
       [cell |-> "In[ ]", line |-> 113, reads |-> {"text_to_wrap"}, binds
        |-> {}],
       [cell |-> "In[ ]", line |-> 123, reads |-> {"emphasize_decorator"},
        binds |-> {"print_greeting"}],
       [cell |-> "In[ ]", line |-> 131, reads |-> {"print_greeting",
        "emphasize_decorator"}, binds |-> {}],
       [cell |-> "In[ ]", line |-> 143, reads |-> {}, binds |->
        {"emphasize_decorator"}],
       [cell |-> "In[ ]", line |-> 154, reads |-> {"emphasize_decorator"},
        binds |-> {"text_to_wrap"}],
       [cell |-> "In[ ]", line |-> 162, reads |-> {"text_to_wrap",
        "emphasize_decorator"}, binds |-> {}],
       [cell |-> "In[ ]", line |-> 167, reads |-> {}, binds |-> {}],
       [cell |-> "In[ ]", line |-> 173, reads |-> {}, binds |-> {}],
       [cell |-> "In[ ]", line |-> 179, reads |-> {}, binds |-> {}],
       [cell |-> "In[ ]", line |-> 188, reads |-> {"JupyterDash"}, binds |->
        {"dcc", "html", "app"}],
       [cell |-> "In[ ]", line |-> 261, reads |-> {"say_whee"}, binds |->
        {}],
       [cell |-> "In[ ]", line |-> 264, reads |-> {}, binds |-> {}]
    >>
      [] name = "09_sklearn.py" ->
    <<
       [cell |-> "In[1]", line |-> 36, reads |-> {}, binds |->
        {"StandardScaler", "np", "plt"}],
       [cell |-> "In[2]", line |-> 53, reads |-> {"np", "StandardScaler",
        "plt"}, binds |-> {"x", "scaler"}],
       [cell |-> "In[3]", line |-> 81, reads |-> {"np", "scaler"}, binds |->
        {"x_alt", "x_alt_scaled"}],
       [cell |-> "In[4]", line |-> 95, reads |-> {"x_alt", "scaler",
        "x_alt_scaled"}, binds |-> {}],
       [cell |-> "In[5]", line |-> 108, reads |-> {"scaler", "x"}, binds |->
        {}],
       [cell |-> "In[6]", line |-> 127, reads |-> {}, binds |-> {"df"}],
       [cell |-> "In[7]", line |-> 148, reads |-> {"np", "df"}, binds |->
        {"LinearRegression", "X", "y", "linreg"}],
       [cell |-> "In[8]", line |-> 166, reads |-> {"linreg"}, binds |-> {}],
       [cell |-> "In[9]", line |-> 176, reads |-> {"linreg", "X", "plt",
        "y"}, binds |-> {"y_pred"}],
       [cell |-> "In[10]", line |-> 188, reads |-> {"np", "linreg", "plt",
        "X", "y"}, binds |-> {}],
       [cell |-> "In[11]", line |-> 210, reads |-> {"y", "y_pred"}, binds
        |-> {"r2_score"}],
       [cell |-> "In[12]", line |-> 223, reads |-> {"df", "plt"}, binds |->
        {}],
       [cell |-> "In[13]", line |-> 236, reads |-> {"np", "df",
        "LinearRegression"}, binds |-> {"X_smoker", "y_smoker",
        "X_non_smoker", "y_non_smoker", "linreg_smoker",
        "linreg_non_smoker"}],
       [cell |-> "In[14]", line |-> 259, reads |-> {"linreg_smoker",
        "X_smoker", "linreg_non_smoker", "X_non_smoker", "plt", "y_smoker",
        "y_non_smoker"}, binds |-> {"y_pred_sm", "y_pred_non"}],
       [cell |-> "In[15]", line |-> 274, reads |-> {"r2_score", "y_smoker",
        "y_pred_sm", "y_non_smoker", "y_pred_non"}, binds |-> {}],
       [cell |-> "In[16]", line |-> 290, reads |-> {"X_smoker",
        "X_non_smoker", "y_smoker"}, binds |-> {"sm", "X_smoker",
        "X_non_smoker"}],
       [cell |-> "In[17]", line |-> 305, reads |-> {"sm", "y_non_smoker",
        "X_non_smoker", "np"}, binds |-> {}],
       [cell |-> "In[18]", line |-> 336, reads |-> {"df"}, binds |->
        {"X_rf", "rf", "y_pred"}],
       [cell |-> "In[19]", line |-> 359, reads |-> {"rf"}, binds |-> {}],
       [cell |-> "In[20]", line |-> 367, reads |-> {"plt", "rf", "X_rf"},
        binds |-> {}]
    >>
      [] name = "10_dash_II.py" ->
    <<
       [cell |-> "In[1]", line |-> 61, reads |-> {}, binds |->
        {"JupyterDash", "dcc", "html", "Input", "Output"}],
       [cell |-> "In[2]", line |-> 113, reads |-> {"JupyterDash", "html",
        "dcc"}, binds |-> {"Input", "Output"}],
       [cell |-> "In[3]", line |-> 156, reads |-> {}, binds |-> {"df"}],
       [cell |-> "In[4]", line |-> 168, reads |-> {"df"}, binds |->
        {"month_marks"}],
       [cell |-> "In[5]", line |-> 174, reads |-> {"JupyterDash", "html",
        "dcc", "df", "month_marks", "Output", "Input"}, binds |-> {}],
       [cell |-> "In[6]", line |-> 221, reads |-> {"JupyterDash", "html",
        "dcc", "df", "month_marks", "Output", "Input"}, binds |-> {}],
       [cell |-> "In[7]", line |-> 277, reads |-> {"JupyterDash", "html",
        "dcc", "df", "Output", "Input"}, binds |-> {}],
       [cell |-> "In[8]", line |-> 328, reads |-> {}, binds |->
        {"dash_table", "go"}],
       [cell |-> "In[9]", line |-> 336, reads |-> {"JupyterDash", "html",
        "dcc", "df", "go", "dash_table", "Output", "Input"}, binds |-> {}],
       [cell |-> "In[10]", line |-> 404, reads |-> {}, binds |->
        {"text_to_wrap"}],
       [cell |-> "In[11]", line |-> 413, reads |-> {}, binds |->
        {"emphasize_decorator"}],
       [cell |-> "In[12]", line |-> 426, reads |-> {"emphasize_decorator",
        "text_to_wrap"}, binds |-> {"text_to_wrap"}],
       [cell |-> "In[13]", line |-> 432, reads |-> {"text_to_wrap"}, binds
        |-> {}],
       [cell |-> "In[14]", line |-> 442, reads |-> {"emphasize_decorator"},
        binds |-> {"print_greeting"}],
       [cell |-> "In[15]", line |-> 450, reads |-> {"print_greeting",
        "emphasize_decorator"}, binds |-> {}],
       [cell |-> "In[16]", line |-> 462, reads |-> {}, binds |->
        {"emphasize_decorator"}],
       [cell |-> "In[17]", line |-> 473, reads |-> {"emphasize_decorator"},
        binds |-> {"text_to_wrap"}],
       [cell |-> "In[18]", line |-> 481, reads |-> {"text_to_wrap",
        "emphasize_decorator"}, binds |-> {}]
    >>
      [] name = "12_markdown.py" ->
    <<
       [cell |-> "In[1]", line |-> 84, reads |-> {}, binds |-> {}]
    >>
      [] name = "13_financial_stats.py" ->
    <<
       [cell |-> "In[1]", line |-> 7, reads |-> {}, binds |-> {"pd", "np"}],
       [cell |-> "In[2]", line |-> 85, reads |-> {"pd"}, binds |-> {"df"}],
       [cell |-> "In[3]", line |-> 98, reads |-> {"df"}, binds |-> {}],
       [cell |-> "In[4]", line |-> 109, reads |-> {"np", "df"}, binds |->
        {}],
       [cell |-> "In[5]", line |-> 144, reads |-> {"pd"}, binds |-> {"df"}],
       [cell |-> "In[6]", line |-> 155, reads |-> {"df", "np"}, binds |->
        {}],
       [cell |-> "In[7]", line |-> 191, reads |-> {}, binds |-> {"yf",
        "msft"}],
       [cell |-> "In[8]", line |-> 199, reads |-> {"msft"}, binds |->
        {"msft"}],
       [cell |-> "In[9]", line |-> 207, reads |-> {"msft", "np"}, binds |->
        {}],
       [cell |-> "In[10]", line |-> 225, reads |-> {"msft"}, binds |-> {}],
       [cell |-> "In[11]", line |-> 235, reads |-> {"msft"}, binds |->
        {"plt"}],
       [cell |-> "In[12]", line |-> 263, reads |-> {"yf", "plt"}, binds |->
        {}],
       [cell |-> "In[13]", line |-> 281, reads |-> {"yf"}, binds |-> {"pd",
        "df", "ao"}],
       [cell |-> "In[14]", line |-> 304, reads |-> {"ao"}, binds |-> {}],
       [cell |-> "In[15]", line |-> 310, reads |-> {"ao"}, binds |-> {}],
       [cell |-> "In[16]", line |-> 316, reads |-> {"ao"}, binds |-> {}],
       [cell |-> "In[17]", line |-> 326, reads |-> {"ao"}, binds |->
        {"plt"}]
    >>
      [] name = "_10_dash_II_alt.py" ->
    <<
       [cell |-> "In[1]", line |-> 7, reads |-> {}, binds |->
        {"JupyterDash", "dcc", "html"}],
       [cell |-> "In[2]", line |-> 61, reads |-> {"JupyterDash", "html",
        "dcc"}, binds |-> {"Input", "Output", "app"}],
       [cell |-> "In[3]", line |-> 109, reads |-> {"JupyterDash", "html",
        "dcc"}, binds |-> {"Input", "Output", "app"}],
       [cell |-> "In[53]", line |-> 148, reads |-> {}, binds |-> {"pd",
        "df"}],
       [cell |-> "In[87]", line |-> 160, reads |-> {"pd"}, binds |-> {}],
       [cell |-> "In[86]", line |-> 166, reads |-> {"df", "pd"}, binds |->
        {}],
       [cell |-> "In[81]", line |-> 172, reads |-> {"JupyterDash", "html",
        "dcc", "df"}, binds |-> {"Input", "Output", "app"}],
       [cell |-> "In[63]", line |-> 207, reads |-> {"df"}, binds |-> {}],
       [cell |-> "In[ ]", line |-> 213, reads |-> {"app", "Output",
        "Input"}, binds |-> {}],
       [cell |-> "In[ ]", line |-> 229, reads |-> {"app"}, binds |-> {}],
       [cell |-> "In[ ]", line |-> 245, reads |-> {}, binds |->
        {"text_to_wrap"}],
       [cell |-> "In[ ]", line |-> 254, reads |-> {}, binds |->
        {"emphasize_decorator"}],
       [cell |-> "In[ ]", line |-> 267, reads |-> {"emphasize_decorator",
        "text_to_wrap"}, binds |-> {"text_to_wrap"}],
       [cell |-> "In[ ]", line |-> 273, reads |-> {"text_to_wrap"}, binds
        |-> {}],
       [cell |-> "In[ ]", line |-> 283, reads |-> {"emphasize_decorator"},
        binds |-> {"print_greeting"}],
       [cell |-> "In[ ]", line |-> 291, reads |-> {"print_greeting",
        "emphasize_decorator"}, binds |-> {}],
       [cell |-> "In[ ]", line |-> 303, reads |-> {}, binds |->
        {"emphasize_decorator"}],
       [cell |-> "In[ ]", line |-> 314, reads |-> {"emphasize_decorator"},
        binds |-> {"text_to_wrap"}],
       [cell |-> "In[ ]", line |-> 322, reads |-> {"text_to_wrap",
        "emphasize_decorator"}, binds |-> {}],
       [cell |-> "In[ ]", line |-> 327, reads |-> {}, binds |-> {}],
       [cell |-> "In[ ]", line |-> 333, reads |-> {}, binds |-> {}],
       [cell |-> "In[ ]", line |-> 339, reads |-> {}, binds |-> {}],
       [cell |-> "In[ ]", line |-> 348, reads |-> {"JupyterDash"}, binds |->
        {"pd", "dcc", "html", "Input", "Output", "app"}],
       [cell |-> "In[ ]", line |-> 421, reads |-> {"say_whee"}, binds |->
        {}],
       [cell |-> "In[ ]", line |-> 424, reads |-> {}, binds |-> {}]
    >>
      [] OTHER -> <<>>

\* A script is run on its own: its namespace starts without any of the
\* names of the script or of another script.
CellsInit ==
    /\ cl_script \in ScriptNames
    /\ cl_pos = 0
    /\ cl_names = {}
    /\ cl_status = "running"
    /\ cl_missing = {}

\* The cell the run executes next.
NextCell == ScriptCells(cl_script)[cl_pos + 1]

\* The next cell finds every name it reads: it runs and binds its names.
RunCell ==
    /\ running = "cells"
    /\ cl_status = "running"
    /\ cl_pos < Len(ScriptCells(cl_script))
    /\ NextCell.reads \subseteq cl_names
    /\ cl_names' = cl_names \cup NextCell.binds
    /\ cl_pos' = cl_pos + 1
    /\ UNCHANGED <<cl_script, cl_status, cl_missing, notCells>>

\* The next cell reads a name that is not bound: NameError ends the run.
RaiseNameError ==
    /\ running = "cells"
    /\ cl_status = "running"
    /\ cl_pos < Len(ScriptCells(cl_script))
    /\ ~(NextCell.reads \subseteq cl_names)
    /\ cl_missing' = NextCell.reads \ cl_names
    /\ cl_status' = "NameError"
    /\ UNCHANGED <<cl_script, cl_pos, cl_names, notCells>>

\* The last cell has run.
FinishScript ==
    /\ running = "cells"
    /\ cl_status = "running"
    /\ cl_pos = Len(ScriptCells(cl_script))
    /\ cl_status' = "finished"
    /\ UNCHANGED <<cl_script, cl_pos, cl_names, cl_missing, notCells>>

NextCells == RunCell \/ RaiseNameError \/ FinishScript

InitCells == CellsInit /\ OthersIdle("cells")

SpecCells == InitCells /\ [][NextCells]_vars

\* C14: when a script is run on its own from its first cell to its last,
\* every name the next cell calls or reads has been defined or imported by
\* an earlier cell of the same script.
CellNamesDefinedEarlier ==
    cl_status = "running" /\ cl_pos < Len(ScriptCells(cl_script)) =>
        NextCell.reads \subseteq cl_names

(***************************************************************************)
(* All examples: one of them is run.                                       *)
(***************************************************************************)
Init ==
    \/ InitGen
    \/ InitOnline
    \/ InitSpider
    \/ InitReactive
    \/ InitNames
    \/ InitStates
    \/ InitChain
    \/ InitSelect
    \/ InitDeco
    \/ InitScope
    \/ InitSlider
    \/ InitCells

Next ==
    \/ NextGen
    \/ NextOnline
    \/ NextSpider
    \/ NextReactive
    \/ NextNames
    \/ NextStates
    \/ NextChain
    \/ NextSelect
    \/ NextDeco
    \/ NextScope
    \/ NextSlider
    \/ NextCells

Spec == Init /\ [][Next]_vars

====
